---- MODULE Spec2Model ----
(***************************************************************************)
(* WonderOfUs mental-health companion: the front end's state machine       *)
(* (Home tabs, MoodAnalyzer, FaceScanner's mood score, MoodDashboard) and  *)
(* the backend collaborators it calls (analyze, history, seed).            *)
(*                                                                         *)
(* Representation.                                                         *)
(*  - A number with one decimal is an integer count of tenths: the         *)
(*    intensity 0.8 is 8, the mood score 7.1 is 71, the baseline 5.0 is 50.*)
(*  - A JS object used as a mapping (emotion -> intensity) is the sequence *)
(*    of its entries <<key, value>> in insertion order, as Object.entries  *)
(*    returns them; keys are distinct.                                     *)
(*  - A text is the sequence of its fragments: a run of whitespace (the    *)
(*    token " "), a word the backend's rules look for, or the words in     *)
(*    between.                                                             *)
(*  - null is the record `null` for object-valued state and the string     *)
(*    `nullStr` for string-valued state.                                   *)
(*  - An optional field that is missing is a field the record lacks.       *)
(***************************************************************************)
EXTENDS Integers, Sequences, FiniteSets, TLC

VARIABLES
    activeTab,        \* Home: 'analyze' | 'dashboard' | 'resources'
    text,             \* MoodAnalyzer: textarea content
    loading,          \* MoodAnalyzer
    result,           \* MoodAnalyzer: MoodAnalysisResponse | null
    error,            \* MoodAnalyzer: string | null
    showTestPrompts,  \* MoodAnalyzer
    showFaceScanner,  \* MoodAnalyzer
    scanner,          \* FaceScanner: its state, refs, timers and awaits in flight
    pending,          \* analyze requests in flight, in the order they were started
    sent,             \* number of analyze requests issued so far
    store,            \* backend persistence: user id -> ordered history
    history,          \* MoodDashboard
    patterns,         \* MoodDashboard
    recommendations,  \* MoodDashboard
    dashboardLoading, \* MoodDashboard: its `loading`
    seeding,          \* MoodDashboard
    showToast,        \* MoodDashboard
    toastTimer,       \* MoodDashboard: the 3 s timer that hides the toast is registered
    dashboardRequest, \* MoodDashboard: the request in flight: "idle" | "load" | "seed"
    answers,          \* MoodDashboard: the answers loadDashboardData's Promise.all has so far
    orphanSeeds       \* seed requests in flight whose MoodDashboard was unmounted

vars == <<activeTab, text, loading, result, error, showTestPrompts, showFaceScanner,
          scanner, pending, sent, store, history, patterns, recommendations, dashboardLoading,
          seeding, showToast,
          toastTimer, dashboardRequest, answers, orphanSeeds>>

analyzerVars == <<text, loading, result, error, showTestPrompts, showFaceScanner,
                  scanner>>
dashboardVars == <<history, patterns, recommendations, dashboardLoading, seeding,
                   showToast, toastTimer, dashboardRequest, answers>>

null == [null |-> TRUE]
nullStr == "null"

----------------------------------------------------------------------------
(* Bounds of the model *)

MaxRequests == 2   \* analyze requests issued in one run
MaxKeys == 2       \* entries of an expression mapping given to calculateMoodScore
MaxTextLen == 3    \* tokens of a text given to the crisis checker
MaxHistory == 3    \* entries of a history returned to the dashboard
MaxWindow == 4     \* entries of a history window whose trend is classified
MaxToastTimers == 1 \* toast timers registered at one time
MaxOrphanSeeds == 1 \* seed requests in flight whose MoodDashboard was unmounted
MaxTimers == 2     \* scan timers of FaceScanner active at one time
MaxInFlight == 2   \* asynchronous operations of FaceScanner in flight at one time

----------------------------------------------------------------------------
(* Generic helpers *)

Min(a, b) == IF a < b THEN a ELSE b
Max(a, b) == IF a > b THEN a ELSE b

Range(s) == {s[i] : i \in 1..Len(s)}

Keys(obj) == {obj[i][1] : i \in 1..Len(obj)}

\* obj[key], for a key the object has
Get(obj, key) == LET i == CHOOSE j \in 1..Len(obj) : obj[j][1] = key IN obj[i][2]

\* Array.prototype.slice(0, n)
Slice(s, n) == SubSeq(s, 1, Min(n, Len(s)))

RECURSIVE InsertSorted(_, _)
\* x = <<rank, item>> placed after every element whose rank is not greater: the step
\* of a stable sort ascending by rank
InsertSorted(s, x) ==
    IF s = <<>> THEN <<x>>
    ELSE IF x[1] < s[Len(s)][1]
         THEN Append(InsertSorted(SubSeq(s, 1, Len(s) - 1), x), s[Len(s)])
         ELSE Append(s, x)

RECURSIVE StableSort(_)
\* Array.prototype.sort (stable) of a sequence of <<rank, item>> whose comparator is
\* rank(a) - rank(b)
StableSort(s) ==
    IF s = <<>> THEN <<>>
    ELSE InsertSorted(StableSort(SubSeq(s, 1, Len(s) - 1)), s[Len(s)])

\* entries.sort(([, a], [, b]) => b - a): descending by value, ties in entry order
SortDescending(entries) ==
    LET ranked == [i \in 1..Len(entries) |-> <<0 - entries[i][2], entries[i]>>]
        sorted == StableSort(ranked)
    IN  [i \in 1..Len(entries) |-> sorted[i][2]]

----------------------------------------------------------------------------
(* IEEE 754 double-precision numbers, as JavaScript's Number and the backend's floats.
   A double x near the rational num / den is the record [num, den, err] with
   x = (num * 2^ErrBits + err) / (den * 2^ErrBits): err is x's distance from num / den
   in units of 1 / (den * 2^ErrBits), an integer for the magnitudes that occur here. *)

\* the binary digits kept behind the binary point
ErrBits == 64

\* the powers of two up to 2^30
PowersOf2 ==
    << 1, 2, 4, 8, 16, 32, 64, 128, 256, 512, 1024, 2048, 4096, 8192, 16384, 32768,
       65536, 131072, 262144, 524288, 1048576, 2097152, 4194304, 8388608, 16777216,
       33554432, 67108864, 134217728, 268435456, 536870912, 1073741824 >>

RECURSIVE Pow2Mod(_, _)
\* 2^e modulo d for d < 2^15, by repeated squaring
Pow2Mod(e, d) ==
    IF e = 0 THEN 1 % d
    ELSE LET half == Pow2Mod(e \div 2, d)
         IN  IF e % 2 = 0 THEN (half * half) % d ELSE (2 * half * half) % d

\* (k * 2^ErrBits) modulo (d * 2^u), which is 2^u * ((k * 2^(ErrBits - u)) modulo d)
ScaledMod(k, d, u) == PowersOf2[u + 1] * (((k % d) * Pow2Mod(ErrBits - u, d)) % d)

RECURSIVE ExponentFrom(_, _, _, _)
\* the binary exponent of the positive real v = (k * 2^ErrBits + e) / (d * 2^ErrBits),
\* searched downwards from p: the largest p' <= p with 2^p' <= v
ExponentFrom(k, d, e, p) ==
    LET left == IF p >= 0 THEN k ELSE k * PowersOf2[1 - p]
        right == IF p >= 0 THEN d * PowersOf2[p + 1] ELSE d
    IN  IF left > right \/ (left = right /\ e >= 0) THEN p
        ELSE ExponentFrom(k, d, e, p - 1)

\* the double nearest to the real v = (k * 2^ErrBits + e) / (d * 2^ErrBits) < 2^8, the
\* one of even significand when two are equally near (round to nearest, ties to even);
\* a double of binary exponent p is a multiple of 2^(p - 52)
RoundToDouble(k, d, e) ==
    IF k = 0 /\ e = 0 THEN [num |-> 0, den |-> d, err |-> 0]
    ELSE LET u == ExponentFrom(k, d, e, 7) - 52 + ErrBits
             m == d * PowersOf2[u + 1]
             r == (ScaledMod(k, d, u) + e) % m
             down == e - r
             up == down + m
             downIsEven == (ScaledMod(k, d, u + 1) + down) % (2 * m) = 0
         IN  [num |-> k, den |-> d,
              err |-> IF 2 * r < m THEN down
                      ELSE IF 2 * r > m THEN up
                      ELSE IF downIsEven THEN down ELSE up]

\* the double a number of tenths is parsed to
double(tenths) == RoundToDouble(tenths, 10, 0)

\* x + y of two doubles
plus(x, y) ==
    IF x.den = y.den THEN RoundToDouble(x.num + y.num, x.den, x.err + y.err)
    ELSE RoundToDouble(x.num * y.den + y.num * x.den, x.den * y.den,
                       x.err * y.den + y.err * x.den)

\* x / n of a double and a positive count
dividedBy(x, n) == RoundToDouble(x.num, x.den * n, x.err)

\* x < y of two doubles
lessThan(x, y) ==
    \/ x.num * y.den < y.num * x.den
    \/ x.num * y.den = y.num * x.den /\ x.err * y.den < y.err * x.den

RECURSIVE InsertByTotal(_, _)
\* the entry x = <<key, total>> placed after every entry whose total is not less than its
\* own: the step of a stable sort descending by total
InsertByTotal(s, x) ==
    IF s = <<>> THEN <<x>>
    ELSE IF lessThan(s[Len(s)][2], x[2])
         THEN Append(InsertByTotal(SubSeq(s, 1, Len(s) - 1), x), s[Len(s)])
         ELSE Append(s, x)

RECURSIVE SortDescendingDoubles(_)
\* entries.sort(([, a], [, b]) => b - a) over doubles: descending by value, ties in
\* entry order; b - a has the sign of the exact difference
SortDescendingDoubles(entries) ==
    IF entries = <<>> THEN <<>>
    ELSE InsertByTotal(SortDescendingDoubles(SubSeq(entries, 1, Len(entries) - 1)),
                       entries[Len(entries)])

----------------------------------------------------------------------------
(* FaceScanner.calculateMoodScore *)

positiveEmotions == {"happy", "surprised"}
negativeEmotions == {"sad", "angry", "fearful", "disgusted"}

RECURSIVE ScoreLoop(_, _, _)
\* the for-of loop over Object.entries(expressions), from entry i with running score
ScoreLoop(expressions, i, score) ==
    IF i > Len(expressions) THEN score
    ELSE LET emotion == expressions[i][1]
             value == expressions[i][2]
         IN  ScoreLoop(expressions, i + 1,
                 IF emotion \in positiveEmotions THEN score + value * 3
                 ELSE IF emotion \in negativeEmotions THEN score - value * 3
                 ELSE score)

calculateMoodScoreBaseline4(expressions) ==
    Max(0, Min(100, ScoreLoop(expressions, 1, 40)))

calculateMoodScoreNoUpperClamp(expressions) ==
    Max(0, ScoreLoop(expressions, 1, 50))

calculateMoodScoreNeutralCounts(expressions) ==
    Max(0, Min(100, ScoreLoop(expressions, 1, 50)
                    + (IF "neutral" \in Keys(expressions)
                       THEN Get(expressions, "neutral") * 3 ELSE 0)))

calculateMoodScore(expressions) ==
    Max(0, Min(100, ScoreLoop(expressions, 1, 50)))

----------------------------------------------------------------------------
(* Texts *)

WS == " "

RECURSIVE trimStart(_)
trimStart(t) == IF t /= <<>> /\ t[1] = WS THEN trimStart(Tail(t)) ELSE t

RECURSIVE trimEnd(_)
trimEnd(t) ==
    IF t /= <<>> /\ t[Len(t)] = WS THEN trimEnd(SubSeq(t, 1, Len(t) - 1)) ELSE t

\* String.prototype.trim
trim(t) == trimEnd(trimStart(t))

\* the crisis sample of the README and of TestPrompts, up to "a way out"
CrisisSample == <<"I feel", "hopeless", "and don't see a way out">>

\* two of the fifteen prompts TestPrompts offers, word for word: the first of
\* 'Crisis Detection' and the first of 'Negative/Low Mood'
testPrompts ==
    { CrisisSample \o <<"of this situation. Nothing matters anymore.">>,
      <<"I'm feeling really", "anxious", "about my upcoming exam.",
        "I", "can't", "stop", "worrying", "about", "whether", "I'll", "pass", "or",
        "not.">> }

\* what the user types into the textarea
TypedTexts == { <<WS>>, <<"day">> }

----------------------------------------------------------------------------
(* Backend: crisis checker (services/ai_service.py is not part of the sources;
   modelled from the specification's section 4.2) *)

HighIndicators == { <<"hopeless">>, <<"ending", "it", "all">> }
ModerateIndicators == { <<"anxious">>, <<"stressed", "out">> }

\* the static, priority-sorted resource catalog
ResourceCatalog ==
    << [name |-> "Crisis Services Canada", phone |-> "1-833-456-4566",
        available |-> "24/7", priority |-> "IMMEDIATE"],
       [name |-> "Kids Help Phone", phone |-> "1-800-668-6868", text |-> "686868",
        available |-> "24/7", priority |-> "IMMEDIATE"],
       [name |-> "Wellness Together Canada", phone |-> "1-866-585-0445",
        available |-> "24/7", priority |-> "HIGH"] >>

RECURSIVE ScanFrom(_, _, _)
\* the rule scan: phrase occurs in text at position i or later
ScanFrom(t, phrase, i) ==
    IF i > Len(t) THEN FALSE
    ELSE IF /\ i + Len(phrase) - 1 <= Len(t)
            /\ \A k \in 1..Len(phrase) : t[i + k - 1] = phrase[k]
         THEN TRUE
    ELSE ScanFrom(t, phrase, i + 1)

MatchedIndicators(t, catalog) == {phrase \in catalog : ScanFrom(t, phrase, 1)}

riskLevelModerateWins(t) ==
    IF MatchedIndicators(t, ModerateIndicators) /= {} THEN "MEDIUM"
    ELSE IF MatchedIndicators(t, HighIndicators) /= {} THEN "HIGH"
    ELSE "LOW"

riskLevel(t) ==
    IF MatchedIndicators(t, HighIndicators) /= {} THEN "HIGH"
    ELSE IF MatchedIndicators(t, ModerateIndicators) /= {} THEN "MEDIUM"
    ELSE "LOW"

\* the CrisisAssessment of a text; the optional reasoning annotation is attached
\* when the external reasoning service answered (annotated)
crisisCheck(t, annotated) ==
    LET risk == riskLevel(t)
        indicators == MatchedIndicators(t, HighIndicators \cup ModerateIndicators)
    IN  IF annotated
        THEN [risk_level |-> risk, indicators |-> indicators,
              requires_immediate_attention |-> (risk = "HIGH"),
              resources |-> ResourceCatalog,
              ai_reasoning |-> "reasoning", ai_enhanced |-> TRUE]
        ELSE [risk_level |-> risk, indicators |-> indicators,
              requires_immediate_attention |-> (risk = "HIGH"),
              resources |-> ResourceCatalog]

----------------------------------------------------------------------------
(* Backend: analyze and the store (routes/mood.py and services/mood_service.py are
   not part of the sources; modelled from the specification's sections 3 and 6) *)

UserIds == {"default_user", "demo_user"}

\* what the pretrained models and the recommendation service answer
Inferences ==
    [ positive |->
        [sentiment |-> [label |-> "POSITIVE", score |-> 9],
         emotions |-> << <<"joy", 8>>, <<"surprise", 2>> >>,
         mood_score |-> 80,
         recommendations |-> << [title |-> "Keep it up", priority |-> "LOW"],
                                [title |-> "Talk to someone", priority |-> "HIGH"] >>],
      negative |->
        [sentiment |-> [label |-> "NEGATIVE", score |-> 7],
         emotions |-> << <<"sadness", 7>>, <<"fear", 3>> >>,
         mood_score |-> 25,
         recommendations |-> << [title |-> "Breathing exercise", priority |-> "MEDIUM"],
                                [title |-> "Call a crisis line", priority |-> "CRITICAL"],
                                [title |-> "Journal", priority |-> "OPTIONAL"] >>] ]

\* pretrained inference is a function of the text: here, negative when the text has a
\* negative word
inferenceOf(t) ==
    IF \E i \in 1..Len(t) :
           t[i] \in {"hopeless", "anxious", "stressed", "ending", "sad", "angry", "fearful",
                     "disgusted"}
    THEN Inferences.negative ELSE Inferences.positive

\* analyze(text, user_id)'s response body; the reasoning annotation is attached when
\* the external reasoning service answered
analyzeResponse(t, annotated) ==
    LET inference == inferenceOf(t)
    IN  [success |-> TRUE,
         mood_analysis |-> [sentiment |-> inference.sentiment,
                            emotions |-> inference.emotions,
                            mood_score |-> inference.mood_score,
                            text_length |-> Len(t)],
         crisis_check |-> crisisCheck(t, annotated),
         recommendations |-> inference.recommendations]

Responses(t) == {analyzeResponse(t, annotated) : annotated \in BOOLEAN}

\* the store appends the MoodEntry of an analyzed text to the history of its user; the
\* timestamp is the store's logical clock for that user
record(user_id, t, response) ==
    [store EXCEPT ![user_id] =
        Append(@, [timestamp |-> Len(@) + 1,
                   mood_score |-> response.mood_analysis.mood_score,
                   sentiment |-> response.mood_analysis.sentiment,
                   emotions |-> response.mood_analysis.emotions,
                   text |-> t])]

\* getHistory(user_id, days): every entry of the model is within the window
getHistory(user_id, days) == store[user_id]

----------------------------------------------------------------------------
(* MoodAnalyzer *)

Remove(s, i) == SubSeq(s, 1, i - 1) \o SubSeq(s, i + 1, Len(s))

\* the errors an analyze request can be rejected with: a network error, which has
\* no response, an HTTP error whose body carries a detail, and an HTTP error whose
\* detail is the empty string
RequestErrors ==
    { [message |-> "Network Error"],
      [message |-> "Request failed with status code 503",
       detail |-> "Model backend unavailable"],
      [message |-> "Request failed with status code 500", detail |-> ""] }

\* err.response?.data?.detail || fallback: the detail when it is truthy, that is not
\* undefined (no such field), not null and not ''
errorDetailOr(err, fallback) ==
    IF "detail" \in DOMAIN err /\ err.detail /= "" /\ err.detail /= nullStr
    THEN err.detail ELSE fallback

\* result.recommendations.sort(...) of the render: sorts the array of the stored
\* response in place; the comparator's rank of a recommendation is
\* priorityOrder[priority] || 99, in which the 0 of CRITICAL is falsy
sortRecommendations(recs) ==
    LET priorityOrder == [CRITICAL |-> 0, HIGH |-> 1, MEDIUM |-> 2, LOW |-> 3]
        order(rec) == IF rec.priority \in DOMAIN priorityOrder
                      THEN priorityOrder[rec.priority] ELSE 0
        priorityRank(rec) == IF order(rec) = 0 THEN 99 ELSE order(rec)
        ranked == [i \in 1..Len(recs) |-> <<priorityRank(recs[i]), recs[i]>>]
        sorted == StableSort(ranked)
    IN  [i \in 1..Len(recs) |-> sorted[i][2]]

\* the state a render leaves behind once setResult(response) has been applied
rendered(response) ==
    [response EXCEPT !.recommendations = sortRecommendations(@)]

\* the button "Analyze My Mood": disabled={loading || !text.trim()}
analyzeDisabled == loading \/ trim(text) = <<>>

crisisAlertShownForAnyRisk ==
    /\ result /= null
    /\ result.crisis_check.risk_level /= "LOW"

\* the alert shown whenever a reasoning annotation is attached
alertShownOfAnnotated(r) ==
    \/ r.crisis_check.requires_immediate_attention
    \/ "ai_reasoning" \in DOMAIN r.crisis_check

\* the condition of the crisis alert panel for the result r
alertShownOf(r) == r.crisis_check.requires_immediate_attention

\* the crisis alert panel: result && result.crisis_check.requires_immediate_attention
crisisAlertShown ==
    /\ result /= null
    /\ alertShownOf(result)

\* the alert listing every resource of the response
displayedResourcesUnsliced(r) ==
    IF alertShownOf(r) THEN r.crisis_check.resources ELSE <<>>

\* the resources the alert panel lists: result.crisis_check.resources.slice(0, 2)
displayedResourcesOf(r) ==
    IF alertShownOf(r) THEN Slice(r.crisis_check.resources, 2) ELSE <<>>

displayedResources == IF result = null THEN <<>> ELSE displayedResourcesOf(result)


\* textarea onChange; the textarea is disabled while loading
SetText(t) ==
    /\ activeTab = "analyze"
    /\ ~loading
    /\ t /= text
    /\ text' = t
    /\ UNCHANGED <<activeTab, orphanSeeds, loading, result, error, showTestPrompts,
                   showFaceScanner, scanner, pending, sent, store, dashboardVars>>

\* the two "Sample Messages" buttons
ToggleTestPrompts ==
    /\ activeTab = "analyze"
    /\ showTestPrompts' = ~showTestPrompts
    /\ UNCHANGED <<activeTab, orphanSeeds, text, loading, result, error, showFaceScanner, scanner,
                   pending, sent, store, dashboardVars>>

\* TestPrompts onSelectPrompt
SelectPrompt(prompt) ==
    /\ activeTab = "analyze"
    /\ showTestPrompts
    /\ text' = prompt
    /\ showTestPrompts' = FALSE
    /\ UNCHANGED <<activeTab, orphanSeeds, loading, result, error, showFaceScanner, scanner,
                   pending, sent, store, dashboardVars>>

handleAnalyzeSendsBlank ==
    /\ activeTab = "analyze"
    /\ sent < MaxRequests
    /\ loading' = TRUE
    /\ error' = nullStr
    /\ result' = null
    /\ pending' = Append(pending, [id |-> sent + 1, kind |-> "text", text |-> text,
                                   user_id |-> "default_user", live |-> TRUE])
    /\ sent' = sent + 1
    /\ UNCHANGED <<activeTab, orphanSeeds, text, showTestPrompts, showFaceScanner, scanner,
                   store,
                   dashboardVars>>

\* handleAnalyze, up to its await
handleAnalyze ==
    /\ activeTab = "analyze"
    /\ IF trim(text) = <<>>
       THEN /\ error' = "Please enter some text to analyze"
            /\ UNCHANGED <<loading, result, pending, sent>>
       ELSE /\ sent < MaxRequests
            /\ loading' = TRUE
            /\ error' = nullStr
            /\ result' = null
            /\ pending' = Append(pending, [id |-> sent + 1, kind |-> "text", text |-> text,
                                           user_id |-> "default_user", live |-> TRUE])
            /\ sent' = sent + 1
    /\ UNCHANGED <<activeTab, orphanSeeds, text, showTestPrompts, showFaceScanner, scanner,
                   store,
                   dashboardVars>>

\* a click on "Analyze My Mood"
ClickAnalyze ==
    /\ ~analyzeDisabled
    /\ handleAnalyze

\* handleAnalyze resumed after its await: the request pending[i] succeeded
AnalyzeResolved(i, response) ==
    /\ pending[i].kind = "text"
    /\ pending[i].live
    /\ store' = record(pending[i].user_id, pending[i].text, response)
    /\ result' = rendered(response)
    /\ loading' = FALSE
    /\ pending' = Remove(pending, i)
    /\ UNCHANGED <<activeTab, orphanSeeds, text, error, showTestPrompts, showFaceScanner, scanner,
                   sent,
                   dashboardVars>>

\* handleAnalyze resumed after its await: the request pending[i] failed
AnalyzeRejected(i, err) ==
    /\ pending[i].kind = "text"
    /\ pending[i].live
    /\ error' = errorDetailOr(err, "Failed to analyze mood: " \o err.message
                                   \o ". Is the backend running?")
    /\ loading' = FALSE
    /\ pending' = Remove(pending, i)
    /\ UNCHANGED <<activeTab, orphanSeeds, text, result, showTestPrompts, showFaceScanner, scanner,
                   sent,
                   store, dashboardVars>>

\* Object.entries(emotions).filter(([_, value]) => value > 0.1)
\*     .sort(([_, a], [__, b]) => b - a).slice(0, 3).map(([emotion]) => emotion)
\* the filter keeping an intensity of exactly 0.1
topEmotionNamesInclusive(emotions) ==
    LET top == Slice(SortDescending(SelectSeq(emotions, LAMBDA e : e[2] >= 1)), 3)
    IN  [i \in 1..Len(top) |-> top[i][1]]

\* Object.entries(emotions).filter(value > 0.1).sort(b - a).slice(0, 3).map(emotion)
topEmotionNames(emotions) ==
    LET top == Slice(SortDescending(SelectSeq(emotions, LAMBDA e : e[2] > 1)), 3)
    IN  [i \in 1..Len(top) |-> top[i][1]]

\* `I'm feeling ${topEmotions.join(', ')} based on my facial expression.`, as tokens
emotionText(emotions) ==
    <<"I'm feeling">> \o topEmotionNames(emotions) \o <<"based on my facial expression.">>

\* the body of the request in flight p: { text, user_id } of moodAPI.analyze(data)
analyzeRequestBody(p) == [text |-> p.text, user_id |-> p.user_id]

\* handleFaceEmotionDetected(emotions, moodScore), up to its await.  live tells
\* whether the MoodAnalyzer whose render made the handler is still mounted: the
\* state updates of an unmounted component are dropped, the request is sent all the
\* same.
handleFaceEmotionDetected(emotions, moodScore, live) ==
    /\ sent < MaxRequests
    /\ IF live
       THEN /\ text' = emotionText(emotions)
            /\ loading' = TRUE
            /\ error' = nullStr
            /\ result' = null
       ELSE UNCHANGED <<text, loading, error, result>>
    /\ pending' = Append(pending, [id |-> sent + 1, kind |-> "face",
                                   text |-> emotionText(emotions),
                                   user_id |-> "default_user", live |-> live,
                                   emotions |-> emotions, moodScore |-> moodScore])
    /\ sent' = sent + 1

\* the override also deriving the sentiment from the face score
faceOverrideSentiment(response, emotions, moodScore) ==
    [response EXCEPT !.mood_analysis.mood_score = moodScore,
                     !.mood_analysis.emotions = emotions,
                     !.mood_analysis.sentiment =
                         [label |-> IF moodScore >= 50 THEN "POSITIVE" ELSE "NEGATIVE",
                          score |-> moodScore \div 10]]

faceOverrideBlend(response, emotions, moodScore) ==
    [response EXCEPT !.mood_analysis.mood_score = (@ + moodScore) \div 2,
                     !.mood_analysis.emotions = emotions]

\* response.mood_analysis.mood_score = moodScore; response.mood_analysis.emotions = emotions
faceOverride(response, emotions, moodScore) ==
    [response EXCEPT !.mood_analysis.mood_score = moodScore,
                     !.mood_analysis.emotions = emotions]

\* handleFaceEmotionDetected resumed after its await: the request pending[i] succeeded
FaceResolved(i, response) ==
    /\ pending[i].kind = "face"
    /\ pending[i].live
    /\ store' = record(pending[i].user_id, pending[i].text, response)
    /\ result' = rendered(faceOverride(response, pending[i].emotions, pending[i].moodScore))
    /\ loading' = FALSE
    /\ pending' = Remove(pending, i)
    /\ UNCHANGED <<activeTab, orphanSeeds, text, error, showTestPrompts, showFaceScanner, scanner,
                   sent,
                   dashboardVars>>

\* handleFaceEmotionDetected resumed after its await: the request pending[i] failed
FaceRejected(i, err) ==
    /\ pending[i].kind = "face"
    /\ pending[i].live
    /\ error' = errorDetailOr(err, "Failed to analyze mood. Please try again.")
    /\ loading' = FALSE
    /\ pending' = Remove(pending, i)
    /\ UNCHANGED <<activeTab, orphanSeeds, text, result, showTestPrompts, showFaceScanner, scanner,
                   sent,
                   store, dashboardVars>>

\* a request whose MoodAnalyzer was unmounted before the answer: the backend still
\* serves it, and the state updates of the unmounted component are dropped
OrphanResolved(i, response) ==
    /\ ~pending[i].live
    /\ store' = record(pending[i].user_id, pending[i].text, response)
    /\ pending' = Remove(pending, i)
    /\ UNCHANGED <<activeTab, orphanSeeds, analyzerVars, sent, dashboardVars>>

OrphanRejected(i) ==
    /\ ~pending[i].live
    /\ pending' = Remove(pending, i)
    /\ UNCHANGED <<activeTab, orphanSeeds, analyzerVars, sent, store, dashboardVars>>

----------------------------------------------------------------------------
(* FaceScanner *)

\* the expressions face-api may report for the first detected face
FaceReadings ==
    { << <<"neutral", 1>>, <<"happy", 8>>, <<"sad", 1>> >>,
      << <<"neutral", 0>>, <<"sad", 9>>, <<"angry", 9>>, <<"fearful", 3>>,
         <<"disgusted", 2>> >> }

\* FaceScanner's state when it mounts: the useState defaults and the refs, with the
\* import of face-api.js started by the first effect.  Beside the component's own
\* state the record holds what the browser holds for it: timers counts the
\* setInterval timers not yet cleared, library / primary / alternative are the
\* promises of the two loading effects, camera the getUserMedia requests in flight
\* ("start" from startCamera, "restart" from resetToCamera), stream whether the
\* <video> has a stream, imageLoaded whether the <img> has its natural dimensions,
\* reads the FileReader reads in flight, imageScans the pending 100 ms timers of
\* detectEmotionsFromImage, detections the detections in flight that a scan timer or
\* an image timer started, captures the captureEmotion calls suspended at their
\* await (imageMode is the mode of the render the button belonged to, mounted whether
\* the FaceScanner of the call is still mounted, live whether the MoodAnalyzer whose
\* callbacks it holds is), and calls the callbacks made by the captureEmotion call
\* that resumed last.
scannerMounted ==
    [ mounted          |-> TRUE,
      isLoading        |-> TRUE,
      isScanning       |-> FALSE,
      error            |-> nullStr,
      detectedEmotions |-> null,
      modelsLoaded     |-> FALSE,
      faceapi          |-> FALSE,
      imageMode        |-> FALSE,
      uploadedImage    |-> nullStr,
      intervalRef      |-> FALSE,
      timers           |-> 0,
      library          |-> "pending",
      primary          |-> "idle",
      alternative      |-> "idle",
      camera           |-> <<>>,
      stream           |-> FALSE,
      imageLoaded      |-> FALSE,
      reads            |-> <<>>,
      imageScans       |-> 0,
      detections       |-> 0,
      captures         |-> <<>>,
      calls            |-> <<>> ]

\* no FaceScanner is rendered: showFaceScanner is false
scannerUnmounted ==
    [ scannerMounted EXCEPT !.mounted = FALSE, !.isLoading = FALSE, !.library = "idle" ]

\* the "Face Scan" button, which loading does not disable: setShowFaceScanner(true),
\* and the render mounts a FaceScanner with its defaults.  What the browser still
\* holds of earlier scanners (timers never cleared, suspended captureEmotion calls)
\* stays.
OpenFaceScanner ==
    /\ activeTab = "analyze"
    /\ ~showFaceScanner
    /\ showFaceScanner' = TRUE
    /\ scanner' = [scannerMounted EXCEPT !.timers = scanner.timers,
                                         !.captures = scanner.captures,
                                         !.calls = scanner.calls]
    /\ UNCHANGED <<activeTab, orphanSeeds, text, loading, result, error, showTestPrompts,
                   pending, sent, store, dashboardVars>>

modelsError ==
    "Face detection models could not be loaded. Please check your internet connection."
fileSizeError == "Image file is too large. Please use an image under 10MB."
noFaceImageError == "No face detected in the image. Please try a different image."
noFaceCameraError == "No face detected. Please position your face in front of the camera."

\* the asynchronous operations of the scanner in flight: camera requests, file
\* reads, image timers, detections of the timers, suspended captureEmotion calls
inFlight(s) ==
    Len(s.camera) + Len(s.reads) + s.imageScans + s.detections + Len(s.captures)

\* what the scanner's steps leave alone: Home, MoodAnalyzer, the backend, MoodDashboard
scannerFrame ==
    UNCHANGED <<activeTab, orphanSeeds, text, loading, result, error, showTestPrompts,
                showFaceScanner, pending, sent, store, dashboardVars>>

\* the buttons exist once the loading view (if (isLoading) return ...) is gone
scannerShown == scanner.mounted /\ ~scanner.isLoading

\* the <video> is rendered unless an uploaded image is displayed in its place
videoRendered(s) == ~s.isLoading /\ ~(s.imageMode /\ s.uploadedImage /= nullStr)

\* the first effect: await import('face-api.js') succeeded, setFaceapi; the second
\* effect then runs loadModels
loadFaceApiResolved ==
    /\ scanner.mounted
    /\ scanner.library = "pending"
    /\ scanner' = [scanner EXCEPT !.library = "resolved", !.faceapi = TRUE,
                                  !.primary = "pending"]
    /\ scannerFrame

\* the first effect: the import failed
loadFaceApiRejected ==
    /\ scanner.mounted
    /\ scanner.library = "pending"
    /\ scanner' = [scanner EXCEPT !.library = "rejected",
                                  !.error = "Face detection library could not be loaded.",
                                  !.isLoading = FALSE]
    /\ scannerFrame

\* setModelsLoaded(true); setIsLoading(false); the third effect then runs startCamera
modelsAreLoaded(s) ==
    [s EXCEPT !.modelsLoaded = TRUE, !.isLoading = FALSE, !.camera = Append(@, "start")]

\* loadModels: the Promise.all over MODEL_URL resolved
loadModelsPrimaryResolved ==
    /\ scanner.mounted
    /\ scanner.primary = "pending"
    /\ scanner' = modelsAreLoaded([scanner EXCEPT !.primary = "resolved"])
    /\ scannerFrame

\* loadModels giving up after the first source
loadModelsPrimaryRejectedNoFallback ==
    /\ scanner.mounted
    /\ scanner.primary = "pending"
    /\ scanner' = [scanner EXCEPT !.primary = "rejected", !.error = modelsError,
                                  !.isLoading = FALSE]
    /\ scannerFrame

\* loadModels: the Promise.all over MODEL_URL rejected; the catch block tries
\* ALT_MODEL_URL
loadModelsPrimaryRejected ==
    /\ scanner.mounted
    /\ scanner.primary = "pending"
    /\ scanner' = [scanner EXCEPT !.primary = "rejected", !.alternative = "pending"]
    /\ scannerFrame

\* loadModels: the Promise.all over ALT_MODEL_URL resolved
loadModelsAlternativeResolved ==
    /\ scanner.mounted
    /\ scanner.alternative = "pending"
    /\ scanner' = modelsAreLoaded([scanner EXCEPT !.alternative = "resolved"])
    /\ scannerFrame

\* loadModels: the Promise.all over ALT_MODEL_URL rejected too
loadModelsAlternativeRejected ==
    /\ scanner.mounted
    /\ scanner.alternative = "pending"
    /\ scanner' = [scanner EXCEPT !.alternative = "rejected", !.error = modelsError,
                                  !.isLoading = FALSE]
    /\ scannerFrame

\* a getUserMedia request resolved, in startCamera or in resetToCamera:
\* if (videoRef.current) videoRef.current.srcObject = stream
getUserMediaResolved(i) ==
    /\ scanner.mounted
    /\ i \in 1..Len(scanner.camera)
    /\ scanner' = [scanner EXCEPT !.camera = Remove(@, i),
                                  !.stream = @ \/ videoRendered(scanner)]
    /\ scannerFrame

\* a getUserMedia request rejected: startCamera catches it, setError and
\* setIsLoading(false); resetToCamera has no catch and the rejection changes nothing
getUserMediaRejected(i) ==
    /\ scanner.mounted
    /\ i \in 1..Len(scanner.camera)
    /\ scanner' = IF scanner.camera[i] = "start"
                  THEN [scanner EXCEPT
                           !.camera = Remove(@, i),
                           !.error = "Could not access camera. Please check permissions.",
                           !.isLoading = FALSE]
                  ELSE [scanner EXCEPT !.camera = Remove(@, i)]
    /\ scannerFrame

\* "Start Scanning", rendered in camera mode while !isScanning: setIsScanning(true),
\* setDetectedEmotions(null), intervalRef.current = setInterval(..., 500)
startScanning ==
    /\ scannerShown
    /\ ~scanner.imageMode
    /\ ~scanner.isScanning
    /\ scanner.timers < MaxTimers
    /\ scanner' = [scanner EXCEPT !.isScanning = TRUE, !.detectedEmotions = null,
                                  !.intervalRef = TRUE, !.timers = @ + 1]
    /\ scannerFrame

\* stopScanning leaving the timer running and referenced
stopScanningKeepsTimer(s) == [s EXCEPT !.isScanning = FALSE]

\* stopScanning(): setIsScanning(false); if (intervalRef.current) { clearInterval(
\* intervalRef.current); intervalRef.current = null }
stopScanning(s) ==
    [s EXCEPT !.isScanning = FALSE, !.intervalRef = FALSE,
              !.timers = IF s.intervalRef THEN @ - 1 ELSE @]

\* the "Stop" button, rendered in camera mode while isScanning
ClickStop ==
    /\ scannerShown
    /\ ~scanner.imageMode
    /\ scanner.isScanning
    /\ scanner' = stopScanning(scanner)
    /\ scannerFrame

\* detectEmotions gets as far as the detection: the refs, the models and the library
\* are there and the video has a frame
videoDetectable(s) == s.modelsLoaded /\ s.faceapi /\ videoRendered(s) /\ s.stream

\* detectEmotionsFromImage gets as far as the detection: the <img> is rendered, the
\* models and the library are there, and the image has its natural dimensions
imageDetectable(s) ==
    /\ s.modelsLoaded /\ s.faceapi
    /\ s.imageMode /\ s.uploadedImage /= nullStr
    /\ s.imageLoaded

\* a tick of the scan timer: detectEmotions() returns at once, or starts a detection
\* and waits for it
ScanTick ==
    /\ scanner.mounted
    /\ scanner.intervalRef
    /\ videoDetectable(scanner)
    /\ inFlight(scanner) < MaxInFlight
    /\ scanner' = [scanner EXCEPT !.detections = @ + 1]
    /\ scannerFrame

\* a detection started by a timer found a face: setDetectedEmotions(expressions),
\* whether or not the scan has been stopped meanwhile
DetectionResolved(expressions) ==
    /\ scanner.mounted
    /\ scanner.detections > 0
    /\ scanner' = [scanner EXCEPT !.detections = @ - 1,
                                  !.detectedEmotions = [expressions |-> expressions]]
    /\ scannerFrame

\* a detection started by a timer found no face: its result is dropped
DetectionNoFace ==
    /\ scanner.mounted
    /\ scanner.detections > 0
    /\ scanner' = [scanner EXCEPT !.detections = @ - 1]
    /\ scannerFrame

\* the "Upload Image" toggle: setImageMode(true)
ClickUploadImage ==
    /\ scannerShown
    /\ ~scanner.imageMode
    /\ scanner' = [scanner EXCEPT !.imageMode = TRUE]
    /\ scannerFrame

\* resetToCamera(), from the "Camera" toggle (if (imageMode) ...) and from "Use
\* Camera": back to camera mode, and getUserMedia again if the video element is there
\* and the models are loaded.  The <img> is gone with the uploaded image.
resetToCamera ==
    /\ scannerShown
    /\ scanner.imageMode
    /\ scanner' = [scanner EXCEPT
           !.imageMode = FALSE, !.uploadedImage = nullStr, !.detectedEmotions = null,
           !.error = nullStr,
           !.imageLoaded = FALSE,
           !.camera = IF videoRendered(scanner) /\ scanner.modelsLoaded
                      THEN Append(@, "restart") ELSE @]
    /\ videoRendered(scanner) /\ scanner.modelsLoaded =>
           inFlight(scanner) < MaxInFlight
    /\ scannerFrame

\* file.type.startsWith(prefix)
startsWith(s, prefix) == Len(s) >= Len(prefix) /\ SubSeq(s, 1, Len(prefix)) = prefix

\* the size limit of handleImageUpload, in bytes
TenMB == 10 * 1024 * 1024

\* e.target.files?.[0]: nothing chosen, or a file of some type and size
Files ==
    {[present |-> FALSE, type |-> "", size |-> 0]}
        \cup [present : {TRUE}, type : {"image/png"}, size : {1, TenMB, TenMB + 1}]
        \cup [present : {TRUE}, type : {"text/plain", "image"}, size : {1, TenMB + 1}]

\* the result of reader.readAsDataURL(file)
dataURL(file) == "data:" \o file.type \o ";base64," \o ToString(file.size)

\* the size check of handleImageUpload refusing the limit itself
fileTooLargeInclusive(file) == file.size >= TenMB

\* file.size > 10 * 1024 * 1024
fileTooLarge(file) == file.size > TenMB

\* handleImageUpload(e), the onChange of the file input, which is rendered while
\* imageMode && !uploadedImage
handleImageUpload(file) ==
    /\ scannerShown
    /\ scanner.imageMode
    /\ scanner.uploadedImage = nullStr
    /\ IF ~file.present
       THEN UNCHANGED scanner
       ELSE IF ~startsWith(file.type, "image/")
       THEN scanner' = [scanner EXCEPT !.error = "Please upload an image file (jpg, png, etc.)"]
       ELSE IF fileTooLarge(file)
       THEN scanner' = [scanner EXCEPT !.error = fileSizeError]
       ELSE /\ inFlight(scanner) < MaxInFlight
            /\ scanner' = [scanner EXCEPT !.reads = Append(@, file)]
    /\ scannerFrame

\* reader.onload: setUploadedImage(imageUrl), setImageMode(true), setError(null),
\* setTimeout(() => detectEmotionsFromImage(), 100).  The <img> takes the place of
\* the <video>, whose stream goes with it, and has no dimensions until it has loaded
\* its source.
FileRead(i) ==
    /\ scanner.mounted
    /\ i \in 1..Len(scanner.reads)
    /\ scanner' = [scanner EXCEPT
           !.uploadedImage = dataURL(scanner.reads[i]),
           !.imageMode = TRUE, !.error = nullStr,
           !.reads = Remove(@, i),
           !.stream = FALSE,
           !.imageLoaded = @ /\ scanner.imageMode
                             /\ scanner.uploadedImage = dataURL(scanner.reads[i]),
           !.imageScans = @ + 1]
    /\ scannerFrame

\* reader.onerror: setError('Failed to read image file.')
FileReadFailed(i) ==
    /\ scanner.mounted
    /\ i \in 1..Len(scanner.reads)
    /\ scanner' = [scanner EXCEPT !.error = "Failed to read image file.", !.reads = Remove(@, i)]
    /\ scannerFrame

\* the <img>'s onLoad: the image has its natural dimensions;
\* if (modelsLoaded && faceapi) setTimeout(() => detectEmotionsFromImage(), 100)
ImageLoaded ==
    /\ scanner.mounted
    /\ scanner.imageMode /\ scanner.uploadedImage /= nullStr
    /\ ~scanner.imageLoaded
    /\ (scanner.modelsLoaded /\ scanner.faceapi) => inFlight(scanner) < MaxInFlight
    /\ scanner' = [scanner EXCEPT
           !.imageLoaded = TRUE,
           !.imageScans = IF scanner.modelsLoaded /\ scanner.faceapi THEN @ + 1 ELSE @]
    /\ scannerFrame

\* a 100 ms timer fires: detectEmotionsFromImage() returns at once, or starts a
\* detection and waits for it
ImageScanFires ==
    /\ scanner.mounted
    /\ scanner.imageScans > 0
    /\ scanner' = [scanner EXCEPT
           !.imageScans = @ - 1,
           !.detections = IF imageDetectable(scanner) THEN @ + 1 ELSE @]
    /\ scannerFrame

\* MoodAnalyzer stops rendering FaceScanner.  The cleanup of the camera effect exists
\* only if that effect ran with modelsLoaded: it stops the stream and clears the timer
\* intervalRef refers to.  The captureEmotion calls suspended at their await go on
\* without the component.
unmount(s) ==
    [scannerUnmounted EXCEPT
        !.timers = IF s.modelsLoaded /\ s.intervalRef THEN s.timers - 1 ELSE s.timers,
        !.captures = [i \in 1..Len(s.captures) |-> [s.captures[i] EXCEPT !.mounted = FALSE]],
        !.calls = s.calls]

\* the close button of the scanner: onClose, MoodAnalyzer's setShowFaceScanner(false)
ClickClose ==
    /\ scannerShown
    /\ showFaceScanner' = FALSE
    /\ scanner' = unmount(scanner)
    /\ UNCHANGED <<activeTab, orphanSeeds, text, loading, result, error, showTestPrompts,
                   pending, sent, store, dashboardVars>>

\* setError(imageMode ? 'No face detected in the image...' : 'No face detected...')
noFaceError(imageMode) == IF imageMode THEN noFaceImageError ELSE noFaceCameraError

\* captureEmotion closing the scanner before it reports the detection
callbacksClosingFirst(expressions, moodScore) ==
    << [name |-> "onClose"],
       [name |-> "onEmotionDetected", emotions |-> expressions, moodScore |-> moodScore] >>

\* the callbacks captureEmotion makes when a face is detected:
\* onEmotionDetected(result.expressions, result.moodScore), then onClose()
callbacks(expressions, moodScore) ==
    << [name |-> "onEmotionDetected", emotions |-> expressions, moodScore |-> moodScore],
       [name |-> "onClose"] >>

\* captureEmotion(), from "Capture Mood" (camera mode, while isScanning) and from
\* "Analyze Mood" (image mode): stopScanning(), then the detection of the mode the
\* button was rendered in.  A detection that returns before detecting anything
\* (a ref, the models or the library missing, or no frame) gives no result at once:
\* setError; otherwise the call is suspended at its await.
captureEmotion ==
    /\ scannerShown
    /\ scanner.imageMode \/ scanner.isScanning
    /\ LET detectable == IF scanner.imageMode THEN imageDetectable(scanner)
                         ELSE videoDetectable(scanner)
       IN  IF detectable
           THEN /\ inFlight(scanner) < MaxInFlight
                /\ scanner' = [stopScanning(scanner) EXCEPT
                       !.captures = Append(@, [imageMode |-> scanner.imageMode,
                                               mounted |-> TRUE, live |-> TRUE])]
           ELSE scanner' = [stopScanning(scanner) EXCEPT
                       !.error = noFaceError(scanner.imageMode), !.calls = <<>>]
    /\ scannerFrame

\* captureEmotion resumed with a face detected: the detection has called
\* setDetectedEmotions(expressions) and returned { expressions, moodScore };
\* onEmotionDetected(result.expressions, result.moodScore) is MoodAnalyzer's
\* handleFaceEmotionDetected and onClose() its setShowFaceScanner(false), of the
\* MoodAnalyzer that rendered the scanner of the call.  The call resumes whether or
\* not its scanner is still mounted; onClose closes whatever scanner that MoodAnalyzer
\* shows by then, and changes nothing once that MoodAnalyzer is unmounted.
captureEmotionDetected(i, expressions) ==
    /\ i \in 1..Len(scanner.captures)
    /\ handleFaceEmotionDetected(expressions, calculateMoodScore(expressions),
                                 scanner.captures[i].live)
    /\ showFaceScanner' = IF scanner.captures[i].live THEN FALSE ELSE showFaceScanner
    /\ scanner' = [(IF scanner.captures[i].live THEN unmount(scanner) ELSE scanner) EXCEPT
           !.captures = Remove(@, i),
           !.calls = callbacks(expressions, calculateMoodScore(expressions))]
    /\ UNCHANGED <<activeTab, orphanSeeds, showTestPrompts, store, dashboardVars>>

\* captureEmotion resumed with no face detected: setError by the imageMode of the
\* render the button belonged to; a FaceScanner unmounted meanwhile takes no update
captureEmotionNoFace(i) ==
    /\ i \in 1..Len(scanner.captures)
    /\ scanner' = [scanner EXCEPT
           !.captures = Remove(@, i),
           !.calls = <<>>,
           !.error = IF scanner.captures[i].mounted
                     THEN noFaceError(scanner.captures[i].imageMode)
                     ELSE @]
    /\ scannerFrame

----------------------------------------------------------------------------
(* Backend: insights and demo data (routes/insights.py and routes/dev.py are not part
   of the sources; modelled from the specification's section 4.3 and the README) *)

RECURSIVE sumMood(_)
sumMood(entries) ==
    IF entries = <<>> THEN 0 ELSE entries[1].mood_score + sumMood(Tail(entries))

RECURSIVE sumOfMoods(_, _)
\* the float sum of the first n mood scores, added in window order
sumOfMoods(entries, n) ==
    IF n = 0 THEN double(0)
    ELSE plus(sumOfMoods(entries, n - 1), double(entries[n].mood_score))

\* the ways the aggregator may have been built.  threshold is the small threshold of
\* the trend, in tenths of a mood point: the specification names no value, and the
\* aggregator is run with each of these.  middle is the halves the middle entry of a
\* window of odd length is counted in: the specification does not say, and requires the
\* two halves to change places when the window is reversed, which the entry does in
\* neither half or in both
Readings == [threshold : {1, 5, 10}, middle : {"neither", "both"}]

\* the earlier half of a window: its first entries
earlierHalf(entries, middle) ==
    SubSeq(entries, 1, IF middle = "both" THEN (Len(entries) + 1) \div 2
                       ELSE Len(entries) \div 2)

\* the later half of a window: its last entries, as many as the earlier half has
laterHalf(entries, middle) ==
    SubSeq(entries, Len(entries) - Len(earlierHalf(entries, middle)) + 1, Len(entries))

\* a decline reported only beyond twice the threshold
trendOfSlowDecline(entries, reading) ==
    LET half == Len(earlierHalf(entries, reading.middle))
        diff == sumMood(laterHalf(entries, reading.middle))
                    - sumMood(earlierHalf(entries, reading.middle))
    IN  IF half = 0 THEN "STABLE"
        ELSE IF diff > reading.threshold * half THEN "IMPROVING"
        ELSE IF 0 - diff > 2 * reading.threshold * half THEN "DECLINING"
        ELSE "STABLE"

\* the mean of the later half against the mean of the earlier half: IMPROVING if it
\* exceeds it by more than the threshold, DECLINING if it is below it by more than the
\* threshold, STABLE otherwise; a window with empty halves is STABLE
trendOf(entries, reading) ==
    LET half == Len(earlierHalf(entries, reading.middle))
        \* (mean of the later half - mean of the earlier half) * half
        diff == sumMood(laterHalf(entries, reading.middle))
                    - sumMood(earlierHalf(entries, reading.middle))
    IN  IF half = 0 THEN "STABLE"
        ELSE IF diff > reading.threshold * half THEN "IMPROVING"
        ELSE IF 0 - diff > reading.threshold * half THEN "DECLINING"
        ELSE "STABLE"

\* the PatternSummary of a history window; an empty window has no average and no trend,
\* the average is the float division of the float sum by the count
patternsOf(entries, reading) ==
    IF entries = <<>> THEN [total_entries |-> 0]
    ELSE [total_entries |-> Len(entries),
          average_mood |-> dividedBy(sumOfMoods(entries, Len(entries)), Len(entries)),
          trend |-> trendOf(entries, reading)]

getPatterns(user_id, reading) == patternsOf(store[user_id], reading)

getRecommendations(user_id) ==
    IF store[user_id] = <<>> THEN <<>>
    ELSE << [title |-> "Keep tracking your mood", priority |-> "LOW"] >>

\* the entries the demo seeder writes for demo_user: a recovery arc
DemoEntries ==
    << [timestamp |-> 1, mood_score |-> 30,
        sentiment |-> [label |-> "NEGATIVE", score |-> 8],
        emotions |-> << <<"sadness", 7>>, <<"fear", 4>> >>, text |-> <<"demo">>],
       [timestamp |-> 2, mood_score |-> 50,
        sentiment |-> [label |-> "NEUTRAL", score |-> 6],
        emotions |-> << <<"neutral", 6>>, <<"sadness", 2>> >>, text |-> <<"demo">>],
       [timestamp |-> 3, mood_score |-> 75,
        sentiment |-> [label |-> "POSITIVE", score |-> 9],
        emotions |-> << <<"joy", 8>>, <<"neutral", 1>> >>, text |-> <<"demo">>] >>

----------------------------------------------------------------------------
(* MoodDashboard *)

\* the three requests of loadDashboardData, none answered yet
NoAnswers ==
    [history |-> [answered |-> FALSE], patterns |-> [answered |-> FALSE],
     recommendations |-> [answered |-> FALSE]]

\* a missing emotions mapping taken for a neutral one
emotionsOfDefaultNeutral(entry) ==
    IF "emotions" \in DOMAIN entry THEN entry.emotions ELSE << <<"neutral", 10>> >>

\* entry.emotions || {}: an entry whose emotions is missing (undefined) or null is the
\* record without the field
emotionsOf(entry) == IF "emotions" \in DOMAIN entry THEN entry.emotions ELSE <<>>

\* acc after: if (!acc[emotion]) acc[emotion] = 0; acc[emotion] += score, the score a
\* number of tenths and the totals doubles
accumulate(acc, emotion, score) ==
    IF emotion \in Keys(acc)
    THEN [i \in 1..Len(acc) |->
            IF acc[i][1] = emotion
            THEN <<emotion, plus(IF acc[i][2].num = 0 /\ acc[i][2].err = 0
                                 THEN double(0) ELSE acc[i][2],
                                 double(score))>>
            ELSE acc[i]]
    ELSE Append(acc, <<emotion, plus(double(0), double(score))>>)

RECURSIVE accumulateEntry(_, _, _)
\* the forEach over Object.entries(entry.emotions || {}), from entry k of the mapping
accumulateEntry(acc, emotions, k) ==
    IF k > Len(emotions) THEN acc
    ELSE accumulateEntry(accumulate(acc, emotions[k][1], emotions[k][2]), emotions, k + 1)

RECURSIVE reduceEmotions(_, _, _)
\* history.reduce(..., {}), from entry i of the history with accumulator acc
reduceEmotions(h, i, acc) ==
    IF i > Len(h) THEN acc
    ELSE reduceEmotions(h, i + 1, accumulateEntry(acc, emotionsOf(h[i]), 1))

emotionDataOf(h) == reduceEmotions(h, 1, <<>>)

topEmotionsPerOccurrence(h) ==
    LET top == Slice(SortDescendingDoubles(emotionDataOf(h)), 5)
    IN  [i \in 1..Len(top) |->
            [emotion |-> top[i][1],
             average |-> dividedBy(top[i][2],
                            Cardinality({j \in 1..Len(h) :
                                            top[i][1] \in Keys(emotionsOf(h[j]))}))]]

\* Object.entries(emotionData).sort(([, a], [, b]) => b - a).slice(0, 5)
\*     .map(([emotion, total]) => ({emotion, average: total / history.length}))
topEmotionsOf(h) ==
    LET top == Slice(SortDescendingDoubles(emotionDataOf(h)), 5)
    IN  [i \in 1..Len(top) |->
            [emotion |-> top[i][1], average |-> dividedBy(top[i][2], Len(h))]]

\* the values the component computes on each render
emotionData == emotionDataOf(history)
topEmotions == topEmotionsOf(history)

\* what the component returns: the spinner, the empty state, or the dashboard
dashboardView ==
    IF dashboardLoading THEN "loading"
    ELSE IF Len(history) = 0 THEN "empty"
    ELSE "dashboard"

\* Number.prototype.toFixed(1) of a double x >= 0: n / 10 for the integer n nearest to
\* 10 * x, the larger n when two are equally near
toFixed1(x) ==
    LET q == (10 * x.num) \div x.den
        rem == 10 * x.num - q * x.den
        n == IF 2 * rem < x.den THEN q
             ELSE IF 2 * rem > x.den THEN q + 1
             ELSE IF x.err >= 0 THEN q + 1 ELSE q
    IN  ToString(n \div 10) \o "." \o ToString(n % 10)

\* a missing average rendered as zero
averageMoodTextOrZero ==
    IF patterns = null \/ "average_mood" \notin DOMAIN patterns THEN "0.0"
    ELSE toFixed1(patterns.average_mood)

\* {patterns?.average_mood?.toFixed(1) || 'N/A'}
averageMoodText ==
    IF patterns = null \/ "average_mood" \notin DOMAIN patterns THEN "N/A"
    ELSE toFixed1(patterns.average_mood)

\* the Trend card without its default
trendTextNoDefault ==
    IF patterns = null \/ "trend" \notin DOMAIN patterns THEN "N/A"
    ELSE patterns.trend

\* {patterns?.trend || 'STABLE'}
trendText ==
    IF patterns = null \/ "trend" \notin DOMAIN patterns THEN "STABLE"
    ELSE patterns.trend

\* one of the three requests of loadDashboardData's Promise.all is answered, from the
\* store as it is at that moment, the pattern summary by an aggregator of one of the
\* readings
Answered(request) ==
    /\ dashboardRequest = "load"
    /\ ~answers[request].answered
    /\ \E body \in CASE request = "history" -> {getHistory("demo_user", 30)}
                      [] request = "patterns" ->
                             {getPatterns("demo_user", reading) : reading \in Readings}
                      [] OTHER -> {getRecommendations("demo_user")} :
           answers' = [answers EXCEPT ![request] = [answered |-> TRUE, body |-> body]]
    /\ UNCHANGED <<activeTab, orphanSeeds, analyzerVars, pending, sent, store, history,
                   patterns, recommendations, dashboardLoading, seeding, showToast,
                   toastTimer, dashboardRequest>>

\* loadDashboardData resumed after its await: the three requests succeeded; this also
\* ends handleSeedDemoData when it is the caller
DashboardLoaded ==
    /\ dashboardRequest = "load"
    /\ \A request \in DOMAIN answers : answers[request].answered
    /\ history' = answers.history.body
    /\ patterns' = answers.patterns.body
    /\ recommendations' = answers.recommendations.body
    /\ answers' = NoAnswers
    /\ dashboardLoading' = FALSE
    /\ seeding' = FALSE
    /\ toastTimer' = IF seeding THEN toastTimer + 1 ELSE toastTimer
    /\ dashboardRequest' = "idle"
    /\ UNCHANGED <<activeTab, orphanSeeds, analyzerVars, pending, sent, store, showToast>>

\* loadDashboardData resumed after its await: one of the three requests failed
DashboardLoadFailed ==
    /\ dashboardRequest = "load"
    /\ \E request \in DOMAIN answers : ~answers[request].answered
    /\ answers' = NoAnswers
    /\ dashboardLoading' = FALSE
    /\ seeding' = FALSE
    /\ toastTimer' = IF seeding THEN toastTimer + 1 ELSE toastTimer
    /\ dashboardRequest' = "idle"
    /\ UNCHANGED <<activeTab, orphanSeeds, analyzerVars, pending, sent, store, history,
                   patterns, recommendations, showToast>>

\* handleSeedDemoData, up to its first await; its buttons are rendered once loading is
\* over and are disabled while seeding
handleSeedDemoData ==
    /\ activeTab = "dashboard"
    /\ ~dashboardLoading
    /\ ~seeding
    /\ toastTimer < MaxToastTimers
    /\ orphanSeeds < MaxOrphanSeeds
    /\ seeding' = TRUE
    /\ dashboardRequest' = "seed"
    /\ UNCHANGED <<activeTab, orphanSeeds, analyzerVars, answers, pending, sent, store,
                   history, patterns, recommendations, dashboardLoading, showToast, toastTimer>>

\* handleSeedDemoData resumed: the seeder wrote the demo data; the toast is shown and
\* loadDashboardData is called
SeedResolved ==
    /\ dashboardRequest = "seed"
    /\ store' = [store EXCEPT !["demo_user"] = DemoEntries]
    /\ showToast' = TRUE
    /\ dashboardRequest' = "load"
    /\ UNCHANGED <<activeTab, orphanSeeds, analyzerVars, answers, pending, sent, history, patterns,
                   recommendations, dashboardLoading, seeding, toastTimer>>

\* handleSeedDemoData resumed: the seeder failed
SeedRejected ==
    /\ dashboardRequest = "seed"
    /\ seeding' = FALSE
    /\ dashboardRequest' = "idle"
    /\ UNCHANGED <<activeTab, orphanSeeds, analyzerVars, answers, pending, sent, store,
                   history, patterns, recommendations, dashboardLoading, showToast, toastTimer>>

\* the seed request of an unmounted MoodDashboard is served: the seeder writes the
\* demo data; what handleSeedDemoData goes on to do has no component to show in
OrphanSeedResolved ==
    /\ orphanSeeds > 0
    /\ orphanSeeds' = orphanSeeds - 1
    /\ store' = [store EXCEPT !["demo_user"] = DemoEntries]
    /\ UNCHANGED <<activeTab, analyzerVars, pending, sent, dashboardVars>>

\* the seed request of an unmounted MoodDashboard fails
OrphanSeedRejected ==
    /\ orphanSeeds > 0
    /\ orphanSeeds' = orphanSeeds - 1
    /\ UNCHANGED <<activeTab, analyzerVars, pending, sent, store, dashboardVars>>

\* setTimeout(() => setShowToast(false), 3000) fires
ToastTimeout ==
    /\ toastTimer > 0
    /\ showToast' = FALSE
    /\ toastTimer' = toastTimer - 1
    /\ UNCHANGED <<activeTab, orphanSeeds, analyzerVars, answers, pending, sent, store,
                   history, patterns, recommendations, dashboardLoading, seeding, dashboardRequest>>

----------------------------------------------------------------------------
(* Home: the tabs mount one component at a time *)

\* a component's state is created by its useState defaults when it mounts
analyzerUnmounted ==
    /\ text' = <<>>
    /\ loading' = FALSE
    /\ result' = null
    /\ error' = nullStr
    /\ showTestPrompts' = FALSE
    /\ showFaceScanner' = FALSE
    /\ scanner' = [unmount(scanner) EXCEPT
           !.captures = [i \in 1..Len(scanner.captures) |->
                            [scanner.captures[i] EXCEPT !.mounted = FALSE, !.live = FALSE]]]

dashboardUnmounted ==
    /\ history' = <<>>
    /\ patterns' = null
    /\ recommendations' = null
    /\ dashboardLoading' = TRUE
    /\ seeding' = FALSE
    /\ showToast' = FALSE
    /\ toastTimer' = 0
    /\ answers' = NoAnswers

\* setActiveTab(tab): the component of the tab left is unmounted, its requests in
\* flight lose their component; MoodDashboard calls loadDashboardData when it mounts.
\* A seed request in flight when MoodDashboard is unmounted stays in flight.
SetActiveTab(tab) ==
    /\ tab /= activeTab
    /\ activeTab' = tab
    /\ IF activeTab = "analyze"
       THEN /\ analyzerUnmounted
            /\ pending' = [i \in 1..Len(pending) |-> [pending[i] EXCEPT !.live = FALSE]]
       ELSE UNCHANGED <<analyzerVars, pending>>
    /\ IF activeTab = "dashboard" \/ tab = "dashboard"
       THEN /\ dashboardUnmounted
            /\ dashboardRequest' = IF tab = "dashboard" THEN "load" ELSE "idle"
       ELSE UNCHANGED dashboardVars
    /\ orphanSeeds' = IF dashboardRequest = "seed" THEN orphanSeeds + 1 ELSE orphanSeeds
    /\ UNCHANGED <<sent, store>>

----------------------------------------------------------------------------
(* The application: Home with MoodAnalyzer, FaceScanner and MoodDashboard *)

Init ==
    /\ activeTab = "analyze"
    /\ text = <<>>
    /\ loading = FALSE
    /\ result = null
    /\ error = nullStr
    /\ showTestPrompts = FALSE
    /\ showFaceScanner = FALSE
    /\ scanner = scannerUnmounted
    /\ pending = <<>>
    /\ sent = 0
    /\ store = [u \in UserIds |-> <<>>]
    /\ history = <<>>
    /\ patterns = null
    /\ recommendations = null
    /\ dashboardLoading = TRUE
    /\ seeding = FALSE
    /\ showToast = FALSE
    /\ toastTimer = 0
    /\ dashboardRequest = "idle"
    /\ answers = NoAnswers
    /\ orphanSeeds = 0

DashboardSteps ==
    \/ \E request \in DOMAIN NoAnswers : Answered(request)
    \/ DashboardLoaded
    \/ DashboardLoadFailed
    \/ handleSeedDemoData
    \/ SeedResolved
    \/ SeedRejected
    \/ OrphanSeedResolved
    \/ OrphanSeedRejected
    \/ ToastTimeout

\* the steps of FaceScanner: its effects, its buttons and its awaits
ScannerSteps ==
    \/ loadFaceApiResolved
    \/ loadFaceApiRejected
    \/ loadModelsPrimaryResolved
    \/ loadModelsPrimaryRejected
    \/ loadModelsAlternativeResolved
    \/ loadModelsAlternativeRejected
    \/ \E i \in 1..MaxInFlight : getUserMediaResolved(i)
    \/ \E i \in 1..MaxInFlight : getUserMediaRejected(i)
    \/ startScanning
    \/ ClickStop
    \/ ScanTick
    \/ \E expressions \in FaceReadings : DetectionResolved(expressions)
    \/ DetectionNoFace
    \/ ClickUploadImage
    \/ resetToCamera
    \/ \E file \in Files : handleImageUpload(file)
    \/ \E i \in 1..MaxInFlight : FileRead(i)
    \/ \E i \in 1..MaxInFlight : FileReadFailed(i)
    \/ ImageLoaded
    \/ ImageScanFires
    \/ captureEmotion
    \/ \E i \in 1..MaxInFlight, expressions \in FaceReadings :
           captureEmotionDetected(i, expressions)
    \/ \E i \in 1..MaxInFlight : captureEmotionNoFace(i)
    \/ ClickClose

Next ==
    \/ \E tab \in {"analyze", "dashboard", "resources"} : SetActiveTab(tab)
    \/ \E t \in TypedTexts : SetText(t)
    \/ ToggleTestPrompts
    \/ \E prompt \in testPrompts : SelectPrompt(prompt)
    \/ ClickAnalyze
    \/ OpenFaceScanner
    \/ ScannerSteps
    \/ \E i \in 1..Len(pending) :
           \/ \E response \in Responses(pending[i].text) : AnalyzeResolved(i, response)
           \/ \E err \in RequestErrors : AnalyzeRejected(i, err)
           \/ \E response \in Responses(pending[i].text) : FaceResolved(i, response)
           \/ \E err \in RequestErrors : FaceRejected(i, err)
           \/ \E response \in Responses(pending[i].text) : OrphanResolved(i, response)
           \/ OrphanRejected(i)
    \/ DashboardSteps

\* the whole application; the specifications below follow parts of it, each with
\* the steps and inputs of the behaviour it is about
Spec == Init /\ [][Next]_vars

----------------------------------------------------------------------------
(* Home with the text analysis and the dashboard: the user types, analyzes, changes
   tabs and uses the dashboard, and never opens the face scanner *)

NextTabs ==
    \/ \E tab \in {"analyze", "dashboard", "resources"} : SetActiveTab(tab)
    \/ \E t \in TypedTexts : SetText(t)
    \/ ClickAnalyze
    \/ \E i \in 1..Len(pending) :
           \/ \E response \in Responses(pending[i].text) : AnalyzeResolved(i, response)
           \/ \E err \in RequestErrors : AnalyzeRejected(i, err)
           \/ \E response \in Responses(pending[i].text) : OrphanResolved(i, response)
           \/ OrphanRejected(i)
    \/ DashboardSteps

SpecTabs == Init /\ [][NextTabs]_vars

----------------------------------------------------------------------------
(* The handlers of MoodAnalyzer called directly, whatever the buttons allow *)

NextHandlers ==
    \/ \E t \in TypedTexts : SetText(t)
    \/ ToggleTestPrompts
    \/ \E prompt \in testPrompts : SelectPrompt(prompt)
    \/ handleAnalyze
    \/ \E i \in 1..Len(pending) :
        \/ \E response \in Responses(pending[i].text) : AnalyzeResolved(i, response)
        \/ \E err \in RequestErrors : AnalyzeRejected(i, err)

SpecHandlers == Init /\ [][NextHandlers]_vars

----------------------------------------------------------------------------
(* Overlapping analyze requests.  A selection of the steps of Next, enough for a
   text request and the requests of face scans to be in flight together: the
   controls of MoodAnalyzer (the textarea, "Analyze My Mood", "Face Scan", the two
   "Sample Messages" buttons and the prompts), the continuations of its requests,
   and of FaceScanner the steps of a capture from the camera (the library and the
   models load, the camera starts, the user scans, captures and closes).  The
   other steps of FaceScanner and the tab changes are steps of Next only. *)

NextOverlap ==
    \/ \E t \in TypedTexts : SetText(t)
    \/ ToggleTestPrompts
    \/ \E prompt \in testPrompts : SelectPrompt(prompt)
    \/ ClickAnalyze
    \/ OpenFaceScanner
    \/ loadFaceApiResolved
    \/ loadModelsPrimaryResolved
    \/ \E i \in 1..MaxInFlight : getUserMediaResolved(i)
    \/ startScanning
    \/ captureEmotion
    \/ \E i \in 1..MaxInFlight, expressions \in FaceReadings :
           captureEmotionDetected(i, expressions)
    \/ \E i \in 1..MaxInFlight : captureEmotionNoFace(i)
    \/ ClickClose
    \/ \E i \in 1..Len(pending) :
        \/ \E response \in Responses(pending[i].text) : AnalyzeResolved(i, response)
        \/ \E err \in RequestErrors : AnalyzeRejected(i, err)
        \/ \E response \in Responses(pending[i].text) : FaceResolved(i, response)
        \/ \E err \in RequestErrors : FaceRejected(i, err)

SpecOverlap == Init /\ [][NextOverlap]_vars

----------------------------------------------------------------------------
(* calculateMoodScore over bounded expression mappings: one face scan of a session,
   from the state in which "Capture Mood" has been clicked in a scanning FaceScanner
   and captureEmotion waits for its detection *)

EmotionKeys == positiveEmotions \cup negativeEmotions \cup {"neutral"}
ScoreValues == {0 - 20, 0, 1, 8, 20}

ScoreInputs ==
    {e \in UNION {[1..n -> EmotionKeys \X ScoreValues] : n \in 0..MaxKeys} :
        \A i, j \in 1..Len(e) : e[i][1] = e[j][1] => i = j}

InitScore ==
    /\ activeTab = "analyze"
    /\ text = <<>>
    /\ loading = FALSE
    /\ result = null
    /\ error = nullStr
    /\ showTestPrompts = FALSE
    /\ showFaceScanner = TRUE
    /\ scanner = [scannerMounted EXCEPT
           !.isLoading = FALSE, !.modelsLoaded = TRUE, !.faceapi = TRUE,
           !.library = "resolved", !.primary = "resolved", !.stream = TRUE,
           !.captures = <<[imageMode |-> FALSE, mounted |-> TRUE, live |-> TRUE]>>]
    /\ pending = <<>>
    /\ sent = MaxRequests - 1
    /\ store = [u \in UserIds |-> <<>>]
    /\ history = <<>>
    /\ patterns = null
    /\ recommendations = null
    /\ dashboardLoading = TRUE
    /\ seeding = FALSE
    /\ showToast = FALSE
    /\ toastTimer = 0
    /\ dashboardRequest = "idle"
    /\ answers = NoAnswers
    /\ orphanSeeds = 0

NextScore ==
    \/ /\ scanner.captures /= <<>>
       /\ \E expressions \in ScoreInputs \cup FaceReadings :
              captureEmotionDetected(1, expressions)
    \/ \E i \in 1..Len(pending) :
        \/ \E response \in Responses(pending[i].text) : FaceResolved(i, response)
        \/ \E err \in RequestErrors : FaceRejected(i, err)

SpecScore == InitScore /\ [][NextScore]_vars

----------------------------------------------------------------------------
(* The crisis checker over bounded texts: one analysis of a session *)

CrisisVocabulary ==
    {WS, "day", "hopeless", "anxious", "ending", "it", "all", "stressed", "out"}

CrisisTexts ==
    UNION {[1..n -> CrisisVocabulary] : n \in 0..MaxTextLen}
        \cup {CrisisSample} \cup testPrompts

InitCrisis ==
    /\ activeTab = "analyze"
    /\ text \in CrisisTexts
    /\ loading = FALSE
    /\ result = null
    /\ error = nullStr
    /\ showTestPrompts = FALSE
    /\ showFaceScanner = FALSE
    /\ scanner = scannerUnmounted
    /\ pending = <<>>
    /\ sent = MaxRequests - 1
    /\ store = [u \in UserIds |-> <<>>]
    /\ history = <<>>
    /\ patterns = null
    /\ recommendations = null
    /\ dashboardLoading = TRUE
    /\ seeding = FALSE
    /\ showToast = FALSE
    /\ toastTimer = 0
    /\ dashboardRequest = "idle"
    /\ answers = NoAnswers
    /\ orphanSeeds = 0

NextCrisis ==
    \/ ClickAnalyze
    \/ \E i \in 1..Len(pending) :
        \/ \E response \in Responses(pending[i].text) : AnalyzeResolved(i, response)
        \/ \E err \in RequestErrors : AnalyzeRejected(i, err)

SpecCrisis == InitCrisis /\ [][NextCrisis]_vars

----------------------------------------------------------------------------
(* The dashboard over bounded stored histories *)

\* entries the store may hold for a user: the third lacks its emotions mapping, the first
\* has an emotion of intensity 0, and sadness sums to 0.6 + 0.3 over the first two
HistoryEntries ==
    { [timestamp |-> 1, mood_score |-> 30,
       sentiment |-> [label |-> "NEGATIVE", score |-> 8],
       emotions |-> << <<"sadness", 6>>, <<"fear", 3>>, <<"anger", 2>>,
                       <<"anxiety", 9>>, <<"joy", 0>> >>,
       text |-> <<"anxious">>],
      [timestamp |-> 2, mood_score |-> 50,
       sentiment |-> [label |-> "NEUTRAL", score |-> 6],
       emotions |-> << <<"love", 1>>, <<"joy", 3>>, <<"sadness", 3>>,
                       <<"neutral", 5>> >>,
       text |-> <<"day">>],
      [timestamp |-> 3, mood_score |-> 60,
       sentiment |-> [label |-> "POSITIVE", score |-> 6],
       text |-> <<"day">>] }

Histories == UNION {[1..n -> HistoryEntries] : n \in 0..MaxHistory}

InitDashboard ==
    /\ activeTab = "analyze"
    /\ text = <<>>
    /\ loading = FALSE
    /\ result = null
    /\ error = nullStr
    /\ showTestPrompts = FALSE
    /\ showFaceScanner = FALSE
    /\ scanner = scannerUnmounted
    /\ pending = <<>>
    /\ sent = 0
    /\ store \in {[default_user |-> <<>>, demo_user |-> h] : h \in Histories}
    /\ history = <<>>
    /\ patterns = null
    /\ recommendations = null
    /\ dashboardLoading = TRUE
    /\ seeding = FALSE
    /\ showToast = FALSE
    /\ toastTimer = 0
    /\ dashboardRequest = "idle"
    /\ answers = NoAnswers
    /\ orphanSeeds = 0

NextDashboard ==
    \/ \E tab \in {"analyze", "dashboard"} : SetActiveTab(tab)
    \/ DashboardSteps

SpecDashboard == InitDashboard /\ [][NextDashboard]_vars

----------------------------------------------------------------------------
(* The dashboard over history windows of finely graded mood scores *)

trendEntry(timestamp, mood) ==
    [timestamp |-> timestamp, mood_score |-> mood,
     sentiment |-> [label |-> "NEUTRAL", score |-> 5],
     emotions |-> << <<"neutral", 5>> >>, text |-> <<"day">>]

\* windows of mood scores whose differences lie around the thresholds, in tenths
TrendHistories ==
    UNION {{[i \in 1..n |-> trendEntry(i, moods[i])] :
               moods \in [1..n -> {40, 48, 49, 60}]} : n \in 0..MaxWindow}

InitTrend ==
    /\ activeTab = "analyze"
    /\ text = <<>>
    /\ loading = FALSE
    /\ result = null
    /\ error = nullStr
    /\ showTestPrompts = FALSE
    /\ showFaceScanner = FALSE
    /\ scanner = scannerUnmounted
    /\ pending = <<>>
    /\ sent = 0
    /\ store \in {[default_user |-> <<>>, demo_user |-> h] : h \in TrendHistories}
    /\ history = <<>>
    /\ patterns = null
    /\ recommendations = null
    /\ dashboardLoading = TRUE
    /\ seeding = FALSE
    /\ showToast = FALSE
    /\ toastTimer = 0
    /\ dashboardRequest = "idle"
    /\ answers = NoAnswers
    /\ orphanSeeds = 0

NextTrend ==
    \/ \E tab \in {"analyze", "dashboard"} : SetActiveTab(tab)
    \/ DashboardSteps

SpecTrend == InitTrend /\ [][NextTrend]_vars

----------------------------------------------------------------------------
(* One FaceScanner from its mount on: MoodAnalyzer has just rendered it
   (showFaceScanner is true), and its effects, buttons and awaits take their steps.
   The requests handleFaceEmotionDetected sends stay in flight. *)

InitScanner ==
    /\ activeTab = "analyze"
    /\ text = <<>>
    /\ loading = FALSE
    /\ result = null
    /\ error = nullStr
    /\ showTestPrompts = FALSE
    /\ showFaceScanner = TRUE
    /\ scanner = scannerMounted
    /\ pending = <<>>
    /\ sent = 0
    /\ store = [u \in UserIds |-> <<>>]
    /\ history = <<>>
    /\ patterns = null
    /\ recommendations = null
    /\ dashboardLoading = TRUE
    /\ seeding = FALSE
    /\ showToast = FALSE
    /\ toastTimer = 0
    /\ dashboardRequest = "idle"
    /\ answers = NoAnswers
    /\ orphanSeeds = 0

\* the import of the library and the two model loads settle
LibrarySettles == loadFaceApiResolved \/ loadFaceApiRejected
PrimarySettles == loadModelsPrimaryResolved \/ loadModelsPrimaryRejected
AlternativeSettles == loadModelsAlternativeResolved \/ loadModelsAlternativeRejected

NextScanner ==
    \/ ScannerSteps

SpecScanner == InitScanner /\ [][NextScanner]_vars

\* every load attempt eventually resolves or rejects: a pending import or model load
\* does not stay pending for ever
SpecScannerFair ==
    /\ InitScanner
    /\ [][NextScanner]_vars
    /\ WF_vars(LibrarySettles)
    /\ WF_vars(PrimarySettles)
    /\ WF_vars(AlternativeSettles)

----------------------------------------------------------------------------
(* Claims about calculateMoodScore, under SpecScore *)

\* the face requests in flight: each holds the mapping and the score captureEmotion
\* passed to onEmotionDetected
FaceRequests == {pending[i] : i \in {j \in 1..Len(pending) : pending[j].kind = "face"}}

RECURSIVE SumOver(_, _)
\* the sum of the mapping's intensities over the keys of a set
SumOver(expressions, keys) ==
    IF keys = {} THEN 0
    ELSE LET k == CHOOSE x \in keys : TRUE
         IN  (IF k \in Keys(expressions) THEN Get(expressions, k) ELSE 0)
                 + SumOver(expressions, keys \ {k})

ReferenceScore(expressions) ==
    LET raw == 50 + 3 * SumOver(expressions, {"happy", "surprised"})
                  - 3 * SumOver(expressions, {"sad", "angry", "fearful", "disgusted"})
    IN  IF raw < 0 THEN 0 ELSE IF raw > 100 THEN 100 ELSE raw

\* C1: whatever the magnitude or sign of the intensities, the mood score
\* calculateMoodScore returns lies in [0,10] (0..100 tenths).
C1_ScoreInRange ==
    \A p \in FaceRequests : p.moodScore >= 0 /\ p.moodScore <= 100

\* a mapping whose unclamped score leaves the range has been scored
C1_Witness ==
    \E p \in FaceRequests :
        ScoreLoop(p.emotions, 1, 50) > 100 \/ ScoreLoop(p.emotions, 1, 50) < 0

\* C2: calculateMoodScore equals clamp(5 + 3*(sum of happy, surprised) - 3*(sum of sad,
\* angry, fearful, disgusted), 0, 10), every other key contributing nothing;
\* {happy: 0.8, sad: 0.1} gives 7.1.
C2_ScoreIsReference ==
    \A p \in FaceRequests :
        /\ p.moodScore = ReferenceScore(p.emotions)
        /\ p.emotions = << <<"happy", 8>>, <<"sad", 1>> >> => p.moodScore = 71

\* the example mapping has been scored
C2_Witness ==
    \E p \in FaceRequests :
        p.emotions = << <<"happy", 8>>, <<"sad", 1>> >> /\ p.moodScore = 71

\* C3: a mapping whose intensities are all zero, the empty mapping included, scores
\* exactly the neutral baseline 5.0.
C3_AllZeroIsBaseline ==
    \A p \in FaceRequests :
        (\A i \in 1..Len(p.emotions) : p.emotions[i][2] = 0) => p.moodScore = 50

\* a mapping of two zero intensities, one of them of a scored emotion, has been scored
C3_Witness ==
    \E p \in FaceRequests :
        /\ Len(p.emotions) = 2
        /\ \A i \in 1..Len(p.emotions) : p.emotions[i][2] = 0
        /\ \E i \in 1..Len(p.emotions) : p.emotions[i][1] \in negativeEmotions
        /\ p.moodScore = 50

----------------------------------------------------------------------------
(* Claims about the crisis assessment *)

\* phrase occurs in the text
Occurs(phrase, t) ==
    \E i \in 1..Len(t) :
        /\ i + Len(phrase) - 1 <= Len(t)
        /\ SubSeq(t, i, i + Len(phrase) - 1) = phrase

\* C4: for every analysis result MoodAnalyzer holds, requires_immediate_attention is
\* true exactly when risk_level is HIGH, so the crisis alert panel is shown for every
\* HIGH-risk result and for no other.
C4_AttentionIffHigh ==
    result /= null =>
        /\ result.crisis_check.requires_immediate_attention
               <=> (result.crisis_check.risk_level = "HIGH")
        /\ crisisAlertShown <=> (result.crisis_check.risk_level = "HIGH")

\* a HIGH-risk result is displayed with its alert
C4_Witness ==
    /\ result /= null
    /\ result.crisis_check.risk_level = "HIGH"
    /\ crisisAlertShown

\* C5: the risk level of an analysed text is HIGH iff a high-severity indicator phrase
\* occurs in it, MEDIUM iff only moderate indicators occur, LOW otherwise; the sample
\* "I feel hopeless and don't see a way out" is HIGH and requires immediate attention.
\* (Under SpecCrisis the text is the one the displayed result was computed for.)
C5_RiskLevelByIndicators ==
    result /= null =>
        LET high == \E phrase \in HighIndicators : Occurs(phrase, text)
            moderate == \E phrase \in ModerateIndicators : Occurs(phrase, text)
            risk == result.crisis_check.risk_level
        IN  /\ risk = "HIGH" <=> high
            /\ risk = "MEDIUM" <=> (moderate /\ ~high)
            /\ risk = "LOW" <=> (~moderate /\ ~high)
            /\ text = CrisisSample =>
                   risk = "HIGH" /\ result.crisis_check.requires_immediate_attention

\* the sample text has been analysed
C5_Witness ==
    /\ result /= null
    /\ text = CrisisSample
    /\ result.crisis_check.risk_level = "HIGH"

----------------------------------------------------------------------------
(* Claims about MoodAnalyzer's handlers *)

\* C6: when the analyze request of a face scan succeeds, the result displayed has the
\* face-derived mood score and the face-derived emotions, whatever the backend returned.
C6_FaceOverridesBackend ==
    [][store' /= store =>
       \A i \in 1..Len(pending) : \A response \in Responses(pending[i].text) :
          FaceResolved(i, response) =>
              /\ result'.mood_analysis.mood_score = pending[i].moodScore
              /\ result'.mood_analysis.emotions = pending[i].emotions]_vars

\* a result is displayed whose score and emotions are a face reading's and not the
\* backend's
C6_Witness ==
    /\ result /= null
    /\ result.mood_analysis.emotions \in FaceReadings
    /\ result.mood_analysis.mood_score = calculateMoodScore(result.mood_analysis.emotions)
    /\ result.mood_analysis.mood_score /= Inferences.positive.mood_score
    /\ result.mood_analysis.mood_score /= Inferences.negative.mood_score

\* C7: when an analyze request fails, in handleAnalyze or in handleFaceEmotionDetected,
\* the handler leaves result null and sets a non-null error.
C7_FailureLeavesNoResult ==
    [][\A i \in 1..Len(pending) : \A err \in RequestErrors :
          (AnalyzeRejected(i, err) \/ FaceRejected(i, err)) =>
              (result' = null /\ error' /= nullStr)]_vars

\* C8: handleAnalyze with empty or whitespace-only text sets the error message, issues
\* no analyze request, and leaves result and loading unchanged.
C8_BlankTextRejected ==
    [][(trim(text) = <<>> /\ handleAnalyze) =>
          /\ error' = "Please enter some text to analyze"
          /\ pending' = pending
          /\ sent' = sent
          /\ result' = result
          /\ loading' = loading]_vars

\* a whitespace-only text has been rejected while a result was displayed
C8_Witness ==
    /\ text = <<WS>>
    /\ error = "Please enter some text to analyze"
    /\ result /= null
    /\ pending = <<>>

----------------------------------------------------------------------------
(* Claims about the dashboard *)

\* C9: the history the dashboard fetches contains every entry the analyzer recorded
\* before.
C9_DashboardShowsAnalyzedEntries ==
    [][DashboardLoaded =>
          \A k \in 1..Len(store["default_user"]) :
              store["default_user"][k] \in Range(history')]_vars

EmotionsIn(h) == UNION {Keys(emotionsOf(h[j])) : j \in 1..Len(h)}

RECURSIVE TotalOf(_, _, _)
\* the sum of emotion e's intensities over the first n entries of h, an entry lacking
\* e adding nothing
TotalOf(h, e, n) ==
    IF n = 0 THEN 0
    ELSE TotalOf(h, e, n - 1)
            + (IF e \in Keys(emotionsOf(h[n])) THEN Get(emotionsOf(h[n]), e) ELSE 0)

RECURSIVE SumOf(_, _, _)
\* the same sum as the program's numbers form it: a double, the intensities added in
\* entry order
SumOf(h, e, n) ==
    IF n = 0 THEN double(0)
    ELSE IF e \in Keys(emotionsOf(h[n]))
         THEN plus(SumOf(h, e, n - 1), double(Get(emotionsOf(h[n]), e)))
         ELSE SumOf(h, e, n - 1)

\* C10: the top emotions are the emotions of the loaded history ranked by their summed
\* intensity in descending order, at most 5 of them, each reported as sum / (number of
\* history entries), the divisor counting the entries that lack the emotion. The sums
\* and the averages are doubles; the ranking by the doubles never inverts the order of
\* the exact sums.
C10_TopEmotions ==
    LET top == topEmotions
        n == Len(history)
        named == {top[i].emotion : i \in 1..Len(top)}
        sum == [e \in EmotionsIn(history) |-> SumOf(history, e, n)]
        total == [e \in EmotionsIn(history) |-> TotalOf(history, e, n)]
    IN  /\ Len(top) = Min(5, Cardinality(EmotionsIn(history)))
        /\ Cardinality(named) = Len(top)
        /\ named \subseteq EmotionsIn(history)
        /\ \A i \in 1..Len(top) :
               top[i].average = dividedBy(sum[top[i].emotion], n)
        /\ \A i, j \in 1..Len(top) :
               i < j => /\ ~lessThan(sum[top[i].emotion], sum[top[j].emotion])
                        /\ total[top[i].emotion] >= total[top[j].emotion]
        /\ \A e \in EmotionsIn(history) \ named : \A i \in 1..Len(top) :
               /\ ~lessThan(sum[top[i].emotion], sum[e])
               /\ total[e] <= total[top[i].emotion]

\* a history of more than 5 emotions is loaded, an emotion among the top 5 is missing
\* from one of its entries, and two of the top 5 have equal exact sums that differ as
\* doubles, the one first met in the history ranked second
C10_Witness ==
    /\ Len(history) = 3
    /\ Cardinality(EmotionsIn(history)) > 5
    /\ Len(topEmotions) = 5
    /\ \E i \in 1..Len(topEmotions) : \E j \in 1..Len(history) :
           topEmotions[i].emotion \notin Keys(emotionsOf(history[j]))
    /\ \E i \in 1..4 :
           LET first == topEmotions[i].emotion
               second == topEmotions[i + 1].emotion
           IN  /\ TotalOf(history, first, 3) = TotalOf(history, second, 3)
               /\ lessThan(SumOf(history, second, 3), SumOf(history, first, 3))
               /\ \E k \in 1..Len(emotionData) : \E l \in 1..Len(emotionData) :
                      k < l /\ emotionData[k][1] = second /\ emotionData[l][1] = first

\* the entries of h that carry an emotions mapping
WithEmotions(h) == SelectSeq(h, LAMBDA entry : "emotions" \in DOMAIN entry)

\* C11: a history entry whose emotions mapping is missing or null is treated as having an
\* empty mapping: the aggregation is defined and equals the aggregation of the history
\* without those entries, no emotion appearing that the other entries do not name.
C11_MissingEmotionsAreEmpty ==
    /\ emotionData = emotionDataOf(WithEmotions(history))
    /\ Keys(emotionData) =
           UNION {Keys(history[j].emotions) :
                     j \in {k \in 1..Len(history) : "emotions" \in DOMAIN history[k]}}

\* a history is loaded in which an entry without emotions follows one with emotions
C11_Witness ==
    /\ ~dashboardLoading
    /\ \E j \in 2..Len(history) :
           /\ "emotions" \notin DOMAIN history[j]
           /\ "emotions" \in DOMAIN history[j - 1]
           /\ history[j - 1].emotions /= <<>>
    /\ emotionData /= <<>>

\* C12: with an empty history the dashboard, once loading is finished, shows the
\* empty-state view, its top-emotions list is empty, no average is ever a division by
\* zero, and a missing average_mood is rendered as 'N/A', not as a zero.
C12_EmptyHistoryNoData ==
    /\ LET top == topEmotions IN \A i \in 1..Len(top) : top[i].average.den > 0
    /\ (activeTab = "dashboard" /\ ~dashboardLoading /\ history = <<>>) =>
           /\ dashboardView = "empty"
           /\ topEmotions = <<>>
    /\ (patterns = null \/ "average_mood" \notin DOMAIN patterns) =>
           averageMoodText = "N/A"

\* the dashboard has loaded an empty history and its pattern summary
C12_Witness ==
    /\ activeTab = "dashboard"
    /\ ~dashboardLoading
    /\ history = <<>>
    /\ patterns /= null
    /\ "average_mood" \notin DOMAIN patterns
    /\ averageMoodText = "N/A"
    /\ dashboardView = "empty"

----------------------------------------------------------------------------
(* Claims about the crisis alert panel *)

\* C13: the crisis alert shows at most 2 resources, the first two of
\* crisis_check.resources in the order of the response; no later resource is displayed.
C13_AlertShowsFirstTwoResources ==
    crisisAlertShown =>
        LET resources == result.crisis_check.resources
        IN  /\ Len(displayedResources) <= 2
            /\ Len(displayedResources) = Min(2, Len(resources))
            /\ \A k \in 1..Len(displayedResources) : displayedResources[k] = resources[k]
            /\ \A k \in 3..Len(resources) : resources[k] \notin Range(displayedResources)

\* an alert is shown for a response that supplied more than two resources
C13_Witness ==
    /\ crisisAlertShown
    /\ Len(result.crisis_check.resources) > 2
    /\ Len(displayedResources) = 2

\* C14: the optional AI reasoning annotation never changes the risk outcome: the result
\* displayed and the result of the same text with the annotation the other way have the
\* same risk_level, the same crisis-alert visibility and the same displayed resources.
\* (Under SpecCrisis the text is the one the displayed result was computed for.)
C14_ReasoningChangesNothing ==
    result /= null =>
        LET twin == rendered(analyzeResponse(text,
                        "ai_reasoning" \notin DOMAIN result.crisis_check))
        IN  /\ ("ai_reasoning" \in DOMAIN twin.crisis_check)
                   /= ("ai_reasoning" \in DOMAIN result.crisis_check)
            /\ twin.crisis_check.risk_level = result.crisis_check.risk_level
            /\ twin.crisis_check.requires_immediate_attention
                   = result.crisis_check.requires_immediate_attention
            /\ alertShownOf(twin) = alertShownOf(result)
            /\ displayedResourcesOf(twin) = displayedResourcesOf(result)

\* an annotated result of MEDIUM risk is displayed, without the alert
C14_Witness ==
    /\ result /= null
    /\ "ai_reasoning" \in DOMAIN result.crisis_check
    /\ result.crisis_check.risk_level = "MEDIUM"
    /\ ~crisisAlertShown

----------------------------------------------------------------------------
(* Claims about the trend *)

\* the mean of the entries xs exceeds the mean of the entries ys by more than the
\* threshold (both non-empty)
MeanExceeds(xs, ys, threshold) ==
    sumMood(xs) * Len(ys) > sumMood(ys) * Len(xs) + threshold * Len(xs) * Len(ys)

Reverse(s) == [i \in 1..Len(s) |-> s[Len(s) + 1 - i]]

StrictlyImproving(h) == \A i \in 1..(Len(h) - 1) : h[i].mood_score < h[i + 1].mood_score

\* the dashboard holds the history and the pattern summary of one load
TrendLoaded == activeTab = "dashboard" /\ ~dashboardLoading /\ patterns /= null

\* the summary the dashboard holds was derived from the window it holds, by an
\* aggregator of the given reading; the two come from separate requests, and a seeding
\* served between them makes them differ.  The count and the trend are compared
\* before the whole summary, whose average is costly to derive
SummaryOfHistory(reading) ==
    /\ TrendLoaded
    /\ patterns.total_entries = Len(history)
    /\ history /= <<>> => patterns.trend = trendOf(history, reading)
    /\ patterns = patternsOf(history, reading)

\* C15: the trend of a history window is IMPROVING if the mean of the later half exceeds
\* the mean of the earlier half by more than the threshold, DECLINING if it is below by
\* more than the threshold, STABLE otherwise (earlier mean 4.0, later mean 6.0 gives
\* IMPROVING), the window being the one the summary was derived from and the threshold
\* and the halves those it was derived with; the dashboard displays the trend it
\* received, and STABLE when it received none.
C15_TrendByHalves ==
    TrendLoaded =>
        /\ "trend" \in DOMAIN patterns => trendText = patterns.trend
        /\ "trend" \notin DOMAIN patterns => trendText = "STABLE"
        /\ \A reading \in Readings :
               (Len(history) >= 2 /\ SummaryOfHistory(reading)) =>
                   LET earlier == earlierHalf(history, reading.middle)
                       later == laterHalf(history, reading.middle)
                   IN  /\ trendText = "IMPROVING"
                              <=> MeanExceeds(later, earlier, reading.threshold)
                       /\ trendText = "DECLINING"
                              <=> MeanExceeds(earlier, later, reading.threshold)
                       /\ trendText = "STABLE" <=>
                              (/\ ~MeanExceeds(later, earlier, reading.threshold)
                               /\ ~MeanExceeds(earlier, later, reading.threshold))
        /\ \A reading \in Readings :
               (/\ Len(history) = 2
                /\ history[1].mood_score = 40
                /\ history[2].mood_score = 60
                /\ SummaryOfHistory(reading)) => trendText = "IMPROVING"

\* the window of earlier mean 4.0 and later mean 6.0 is displayed as IMPROVING
C15_Witness ==
    /\ \E reading \in Readings : SummaryOfHistory(reading)
    /\ Len(history) = 2
    /\ history[1].mood_score = 40
    /\ history[2].mood_score = 60
    /\ trendText = "IMPROVING"

\* C16: trend classification is symmetric under reversal: for every strictly improving
\* mood sequence classified IMPROVING, the reversed sequence is classified DECLINING,
\* whatever the threshold and whichever halves the middle entry of an odd window is
\* counted in.
C16_ReversalSymmetric ==
    \A reading \in Readings :
        (/\ TrendLoaded
         /\ trendText = "IMPROVING"
         /\ StrictlyImproving(history)
         /\ SummaryOfHistory(reading)) =>
            trendOf(Reverse(history), reading) = "DECLINING"

\* a strictly improving window of odd length, three entries, is displayed as IMPROVING,
\* and its reversal is DECLINING
C16_Witness ==
    \E reading \in Readings :
        /\ SummaryOfHistory(reading)
        /\ Len(history) = 3
        /\ StrictlyImproving(history)
        /\ trendText = "IMPROVING"
        /\ trendOf(Reverse(history), reading) = "DECLINING"

----------------
(* Claims about the displayed result and the face scan's request *)

\* the priority order the claim names: CRITICAL, HIGH, MEDIUM, LOW, unknown last
PriorityOf(rec) ==
    CASE rec.priority = "CRITICAL" -> 0
      [] rec.priority = "HIGH" -> 1
      [] rec.priority = "MEDIUM" -> 2
      [] rec.priority = "LOW" -> 3
      [] OTHER -> 99

\* C17: the recommendations of a displayed result are in the order CRITICAL, HIGH,
\* MEDIUM, LOW, unknown priorities last: none is displayed before one of strictly
\* higher priority.
C17_RecommendationsByPriority ==
    result /= null =>
        \A i, j \in 1..Len(result.recommendations) :
            i < j => PriorityOf(result.recommendations[i])
                        <= PriorityOf(result.recommendations[j])

\* the number of times x occurs in the sequence s
CountIn(s, x) == Cardinality({k \in 1..Len(s) : s[k] = x})

\* C18: handleFaceEmotionDetected changes only mood_analysis.mood_score and
\* mood_analysis.emotions of the backend response: the sentiment, the whole crisis_check
\* and the recommendations of the result are those the analyze request returned (the
\* recommendations in the order the render gives any result).
C18_FaceOverrideFrame ==
    [][store' /= store =>
       \A i \in 1..Len(pending) : \A response \in Responses(pending[i].text) :
          FaceResolved(i, response) =>
              /\ result'.success = response.success
              /\ result'.mood_analysis.sentiment = response.mood_analysis.sentiment
              /\ result'.mood_analysis.text_length = response.mood_analysis.text_length
              /\ DOMAIN result'.mood_analysis = DOMAIN response.mood_analysis
              /\ DOMAIN result' = DOMAIN response
              /\ result'.crisis_check = response.crisis_check
              /\ Len(result'.recommendations) = Len(response.recommendations)
              /\ \A k \in 1..Len(response.recommendations) :
                     CountIn(result'.recommendations, response.recommendations[k])
                         = CountIn(response.recommendations, response.recommendations[k])
              /\ result'.recommendations = rendered(response).recommendations]_vars

\* a face scan's result is displayed whose score is the face's and whose sentiment,
\* crisis check and recommendations are the backend's for the text sent
C18_Witness ==
    /\ result /= null
    /\ result.mood_analysis.emotions \in FaceReadings
    /\ result.mood_analysis.mood_score /= inferenceOf(text).mood_score
    /\ result.mood_analysis.sentiment = inferenceOf(text).sentiment
    /\ result.crisis_check \in {crisisCheck(text, annotated) : annotated \in BOOLEAN}
    /\ result.recommendations /= <<>>

\* the entries of the mapping above 0.1
Above(emotions) == {k \in 1..Len(emotions) : emotions[k][2] > 1}

\* C19: the text handleFaceEmotionDetected sends names at most 3 emotions, those of
\* intensity strictly greater than 0.1 (the highest 3 of them when there are more), in
\* descending order of intensity; the request is sent also when no emotion exceeds 0.1,
\* the list then being empty; its body holds only the text and the user id.
C19_FaceTextNamesTopEmotions ==
    \A p \in FaceRequests :
        LET names == SubSeq(p.text, 2, Len(p.text) - 1)
            above == Above(p.emotions)
            at(name) == CHOOSE k \in 1..Len(p.emotions) : p.emotions[k][1] = name
            value(name) == p.emotions[at(name)][2]
        IN  /\ p.text[1] = "I'm feeling"
            /\ p.text[Len(p.text)] = "based on my facial expression."
            /\ Len(names) = Min(3, Cardinality(above))
            /\ \A i \in 1..Len(names) : at(names[i]) \in above
            /\ \A i, j \in 1..Len(names) : i < j => names[i] /= names[j]
            /\ \A i, j \in 1..Len(names) : i < j => value(names[i]) >= value(names[j])
            /\ \A k \in above : \A i \in 1..Len(names) :
                   (\A j \in 1..Len(names) : names[j] /= p.emotions[k][1]) =>
                       p.emotions[k][2] <= value(names[i])
            /\ analyzeRequestBody(p) = [text |-> emotionText(p.emotions),
                                        user_id |-> "default_user"]
            /\ DOMAIN analyzeRequestBody(p) = {"text", "user_id"}

\* a request is in flight for a mapping of four emotions above 0.1, naming three
C19_Witness ==
    \E p \in FaceRequests :
        /\ Cardinality(Above(p.emotions)) > 3
        /\ Len(p.text) = 5

\* C20: loading is true in every state in which at least one analyze request of the
\* mounted MoodAnalyzer is in flight.
C20_LoadingWhileInFlight ==
    (\E i \in 1..Len(pending) : pending[i].live) => loading


\* C21: when analyze requests overlap, a response to an earlier request never
\* overwrites the result or error of a later one: whenever the answer to a request of
\* the mounted MoodAnalyzer changes result or error, every request started after it
\* is still in flight.
C21_LatestRequestWins ==
    [][\A i \in 1..Len(pending) :
          ( /\ pending[i].live
            /\ pending' = Remove(pending, i)
            /\ (result' /= result \/ error' /= error) )
          => \A id \in (pending[i].id + 1)..sent :
                 \E k \in 1..Len(pending) : pending[k].id = id]_vars


----------------------------------------------------------------------------
(* Claims about FaceScanner, under SpecScanner and SpecScannerFair *)

\* C25: in a mounted FaceScanner, whatever startScanning, stopScanning, captureEmotion
\* and the mode switches have done, isScanning is true iff intervalRef holds a scan
\* timer, and the timer intervalRef holds is the only active one: at most one timer
\* is active and none was overwritten without being cleared.
C25_ScanningIffTimer ==
    scanner.mounted =>
        /\ scanner.isScanning <=> scanner.intervalRef
        /\ scanner.timers = IF scanner.intervalRef THEN 1 ELSE 0

\* scanning goes on, with its one timer, after a switch to image mode
C25_Witness ==
    /\ scanner.mounted
    /\ scanner.imageMode
    /\ scanner.isScanning
    /\ scanner.intervalRef
    /\ scanner.timers = 1


\* the type is image/*: the six characters "image/" and then anything
ImageType(type) == Len(type) >= 6 /\ SubSeq(type, 1, 6) = "image/"

\* C24: handleImageUpload rejects a file whose type is not image/* or whose size is
\* strictly greater than 10 MB by setting an error, leaving uploadedImage and
\* imageMode unchanged and reading nothing; a file of exactly 10 MB is accepted (it is
\* read); a successful read sets uploadedImage, sets imageMode and clears the error.
C24_UploadValidation ==
    [][ /\ \A file \in Files :
             (file.present /\ handleImageUpload(file)) =>
                 IF ~ImageType(file.type) \/ file.size > 10485760
                 THEN /\ scanner'.error /= nullStr
                      /\ scanner'.uploadedImage = scanner.uploadedImage
                      /\ scanner'.imageMode = scanner.imageMode
                      /\ scanner'.reads = scanner.reads
                 ELSE /\ scanner'.reads = Append(scanner.reads, file)
                      /\ scanner'.error = scanner.error
        /\ \A i \in 1..MaxInFlight :
             FileRead(i) =>
                 /\ scanner'.uploadedImage /= nullStr
                 /\ scanner'.imageMode
                 /\ scanner'.error = nullStr ]_vars

\* a file over the limit was rejected, then a file of exactly 10 MB is being read
C24_Witness ==
    /\ scanner.error = fileSizeError
    /\ scanner.uploadedImage = nullStr
    /\ \E i \in 1..Len(scanner.reads) :
           scanner.reads[i].size = 10485760 /\ ImageType(scanner.reads[i].type)


\* the scan timer intervalRef held, if any, is cleared and scanning is off
TimerStopped ==
    /\ ~scanner'.isScanning
    /\ ~scanner'.intervalRef
    /\ scanner'.timers = scanner.timers - (IF scanner.intervalRef THEN 1 ELSE 0)

\* MoodAnalyzer saw no callback: no request was sent and the scanner stays as open
\* as it was
NoCallback ==
    /\ scanner'.calls = <<>>
    /\ pending' = pending
    /\ sent' = sent
    /\ showFaceScanner' = showFaceScanner

\* C22: captureEmotion stops the scan timer first, before any callback; with a face
\* detected it calls onEmotionDetected exactly once, with the detected expressions and
\* their calculateMoodScore value, and then onClose; with no face detected it calls
\* neither, sets the "no face detected" error and leaves the scanner open.
C22_CaptureProtocol ==
    [][ /\ captureEmotion =>
               /\ TimerStopped
               /\ pending' = pending /\ showFaceScanner' = showFaceScanner
               /\ scanner'.captures = scanner.captures =>
                      /\ NoCallback
                      /\ scanner'.error \in {noFaceImageError, noFaceCameraError}
        /\ sent' /= sent =>
           \A i \in 1..MaxInFlight, expressions \in FaceReadings :
               captureEmotionDetected(i, expressions) =>
                   /\ Len(scanner'.calls) = 2
                   /\ scanner'.calls[1].name = "onEmotionDetected"
                   /\ scanner'.calls[1].emotions = expressions
                   /\ scanner'.calls[1].moodScore = calculateMoodScore(expressions)
                   /\ scanner'.calls[2].name = "onClose"
                   /\ Len(pending') = Len(pending) + 1
                   /\ pending'[Len(pending')].emotions = expressions
                   /\ pending'[Len(pending')].moodScore = calculateMoodScore(expressions)
                   /\ ~showFaceScanner'
        /\ \A i \in 1..MaxInFlight :
               captureEmotionNoFace(i) =>
                   /\ NoCallback
                   /\ scanner.captures[i].mounted =>
                          scanner'.error \in {noFaceImageError, noFaceCameraError} ]_vars

\* a capture found a face: the two callbacks were made, the request of the face
\* analysis is in flight, the scanner is closed and no scan timer is left
C22_Witness ==
    /\ Len(scanner.calls) = 2
    /\ ~showFaceScanner
    /\ scanner.timers = 0
    /\ \E i \in 1..Len(pending) :
           /\ pending[i].kind = "face"
           /\ pending[i].emotions = scanner.calls[1].emotions
           /\ pending[i].moodScore = scanner.calls[1].moodScore


\* the models error is displayed only after both sources failed, and modelsLoaded
\* holds exactly if one of the two loads succeeded
FallbackRespected ==
    /\ scanner.error = modelsError =>
           scanner.primary = "rejected" /\ scanner.alternative = "rejected"
    /\ scanner.mounted =>
           (scanner.modelsLoaded <=>
                (scanner.primary = "resolved" \/ scanner.alternative = "resolved"))
    /\ scanner.alternative /= "idle" => scanner.primary = "rejected"

\* C23: model loading falls back to the alternative source: the "models could not be
\* loaded" error is set only if both the primary and the alternative load failed,
\* modelsLoaded is true iff one of the two succeeded, and, every load attempt
\* settling eventually, isLoading eventually becomes false and stays false, whether
\* the import fails, one source succeeds or both fail.
C23_ModelLoadingFallback == [] FallbackRespected /\ <>[] (~scanner.isLoading)

\* both sources have failed: the error is displayed and loading is over
C23_Witness ==
    /\ scanner.mounted
    /\ scanner.primary = "rejected"
    /\ scanner.alternative = "rejected"
    /\ scanner.error = modelsError
    /\ ~scanner.modelsLoaded
    /\ ~scanner.isLoading

====
